---------------------------- MODULE Spec2Model ----------------------------
(***************************************************************************)
(* Jal-Rakshya: the in-memory data store (dataStore.js), the water-score   *)
(* and forecast engine (waterScore.js), the cached HTTP handlers           *)
(* (waterController.js), the CSV upload route and the serverless cold      *)
(* start (_ensureData).                                                    *)
(*                                                                         *)
(* Numbers.  Every metric of an observation (consumption, usages,          *)
(* rainfall, depletionRate, ph, groundwaterLevel) is held in TENTHS of its *)
(* unit as an integer (ph 7.0 is 70, rainfall 1200 mm is 12000).           *)
(* Arithmetic that the code does in floating point is done here on exact   *)
(* rationals [n, d]; toFixed and Math.round are applied to the exact value.*)
(* Coordinates are in micro-degrees.  A nullable number is <<>> (null) or  *)
(* <<v>>.  Date values are readings of the variable clock.                 *)
(***************************************************************************)
EXTENDS Integers, Sequences, FiniteSets, TLC

VARIABLES
  csvRows,      \* the parsed rows of the startup file new_nsk_gwater.csv
  waterData,    \* dataStore.js: let waterData = []
  locations,    \* dataStore.js: let locations = []
  cache,        \* waterController.js: the NodeCache instance (key -> response)
  dataLoaded,   \* server.js: let dataLoaded = false
  loading,      \* number of loadData() calls suspended at `await parseCSV`
  loadsStarted, \* number of loadData() calls started so far
  clock,        \* the wall clock read by `new Date()`
  requests,     \* number of HTTP handlers that have run
  uploads,      \* number of CSV uploads ingested
  response,     \* the last HTTP response sent
  genBase,      \* generator harness: the base row handed to generateMultiYearData
  genOut,       \* generator harness: the outputs of the calls made so far
  fcHistory,    \* forecast harness: the historical series
  fcYears,      \* forecast harness: the yearsAhead argument / query value
  fcResult,     \* forecast harness: what the last call returned
  alData,       \* alert harness: the latest record handed to generateAlerts
  alHistory,    \* alert harness: the history argument (Null: not passed)
  alResult,     \* alert harness: what generateAlerts returned
  engCall,      \* score-engine harness: the call to make (function and arguments)
  engResult,    \* score-engine harness: what the call returned
  hashName,     \* hash harness: the location name
  hashResult    \* hash harness: the hashes the three implementations computed

vars == <<csvRows, waterData, locations, cache, dataLoaded, loading, loadsStarted,
          clock, requests, uploads, response, genBase, genOut, fcHistory, fcYears, fcResult,
          alData, alHistory, alResult, engCall, engResult, hashName, hashResult>>

storeVars   == <<csvRows, waterData, locations, cache, dataLoaded, loading,
                 loadsStarted, requests, uploads, response>>
genVars     == <<genBase, genOut>>
fcVars      == <<fcHistory, fcYears, fcResult>>
alVars      == <<alData, alHistory, alResult>>
engVars     == <<engCall, engResult>>
hashVars    == <<hashName, hashResult>>
libVars     == <<alVars, engVars, hashVars>>

-----------------------------------------------------------------------------
(* Bounds of the model *)

MaxLoads    == 2   \* concurrent cold-start loadData() calls
MaxRequests == 2   \* HTTP handlers run in one behaviour
MaxUploads  == 1   \* CSV uploads ingested in one behaviour
MaxBatch    == 2   \* valid rows in one uploaded CSV
MaxClock    == 1   \* clock readings 0..MaxClock
MaxGenCalls == 2   \* calls of generateMultiYearData in the generator harness

-----------------------------------------------------------------------------
(* Integer and rational helpers *)

Abs(x) == IF x < 0 THEN -x ELSE x
Max(a, b) == IF a >= b THEN a ELSE b
Min(a, b) == IF a <= b THEN a ELSE b

RECURSIVE Gcd(_, _)
Gcd(a, b) == IF b = 0 THEN a ELSE Gcd(b, a % b)

\* The rational n/d in lowest terms with a positive denominator.
Rat(n, d) ==
  LET g == Gcd(Abs(n), Abs(d))
      s == IF d < 0 THEN -1 ELSE 1
  IN  [n |-> s * (n \div g), d |-> s * (d \div g)]

RInt(k)    == [n |-> k, d |-> 1]
RAdd(a, b) == Rat(a.n * b.d + b.n * a.d, a.d * b.d)
RSub(a, b) == Rat(a.n * b.d - b.n * a.d, a.d * b.d)
RMul(a, b) == Rat(a.n * b.n, a.d * b.d)
RDiv(a, b) == Rat(a.n * b.d, a.d * b.n)
RLeq(a, b) == a.n * b.d <= b.n * a.d
RLt(a, b)  == a.n * b.d < b.n * a.d
RMax(a, b) == IF RLeq(b, a) THEN a ELSE b
RMin(a, b) == IF RLeq(a, b) THEN a ELSE b
RAbs(a)    == [n |-> Abs(a.n), d |-> a.d]

\* Math.round: the nearest integer, a tie going up.
MathRound(a) == (2 * a.n + a.d) \div (2 * a.d)

\* Number.prototype.toFixed(0) read back with unary +: the nearest integer,
\* a tie going away from zero.
RoundHalfAway(a) ==
  IF a.n >= 0 THEN (2 * a.n + a.d) \div (2 * a.d)
  ELSE -((2 * (-a.n) + a.d) \div (2 * a.d))

\* +(x).toFixed(1) and +(x).toFixed(0) of a value x in natural units, as tenths.
ToFixed1(x) == RoundHalfAway(RMul(x, RInt(10)))
ToFixed0(x) == 10 * RoundHalfAway(x)

\* A metric held in tenths, as a rational in natural units.
Tenths(t) == Rat(t, 10)

SeqToSet(s) == {s[i] : i \in 1..Len(s)}

\* Array.prototype.filter
RECURSIVE SelectIdx(_, _)
SelectIdx(s, keep) ==
  IF s = <<>> THEN <<>>
  ELSE LET rest == SelectIdx(Tail(s), [i \in 1..(Len(s) - 1) |-> keep[i + 1]])
       IN  IF keep[1] THEN <<Head(s)>> \o rest ELSE rest

\* Array.prototype.sort with a comparator that orders by an integer key,
\* ascending; the sort is stable (equal keys keep their relative order).
StableSortByKey(s, key) ==
  LET n == Len(s)
      pos(i) == Cardinality({j \in 1..n : key[j] < key[i] \/ (key[j] = key[i] /\ j < i)}) + 1
  IN  [p \in 1..n |-> s[CHOOSE i \in 1..n : pos(i) = p]]

-----------------------------------------------------------------------------
(* The location-name hash (dataStore.js generateCoordinates and              *)
(* generateMultiYearData)                                                    *)

\* String.prototype.charCodeAt over the location names of the model.
CharCodes(name) ==
  CASE name = "A" -> <<65>>
    [] name = "B" -> <<66>>
    [] name = "constructor" -> <<99, 111, 110, 115, 116, 114, 117, 99, 116, 111, 114>>

\* hash = (hash << 5) - hash + c;  hash |= 0
\* that is, 31 * hash + c wrapped to a signed 32-bit integer.  The product is
\* formed on 16-bit halves so that no intermediate value leaves 32 bits.
HashStep(hash, c) ==
  LET hi  == (hash \div 65536) % 65536
      lo  == hash % 65536
      lo2 == lo * 31 + c
      hi2 == (hi * 31 + (lo2 \div 65536)) % 65536
      lo3 == lo2 % 65536
  IN  IF hi2 >= 32768 THEN (hi2 - 65536) * 65536 + lo3 ELSE hi2 * 65536 + lo3

RECURSIVE HashFrom(_, _)
HashFrom(hash, codes) ==
  IF codes = <<>> THEN hash ELSE HashFrom(HashStep(hash, Head(codes)), Tail(codes))

\* The hash loop of generateCoordinates in dataStore.js, over the UTF-16 code
\* units of the name.
coordinatesHash(codes) == HashFrom(0, codes)

\* The seed loop of generateMultiYearData.
generatorSeed(codes) == HashFrom(0, codes)

\* A hash loop that starts from 5381 instead of 0.
seedScriptHash_Seed5381(codes) == HashFrom(5381, codes)

\* The hash loop of generateCoordinates in the seed script.
seedScriptHash(codes) == HashFrom(0, codes)

NameHash(name) == coordinatesHash(CharCodes(name))

\* JavaScript %: the remainder has the sign of the dividend.
JsRem(a, b) == IF a >= 0 THEN a % b ELSE -((-a) % b)

\* generateCoordinates, in micro-degrees:
\* 19.9975 + ((hash % 500) / 500) * 0.8 - 0.4  and the same around 73.7898
\* with hash >> 8 (an arithmetic shift: the floor of hash / 256).
coordinatesOf(hash) ==
  [latitude  |-> 19997500 + JsRem(hash, 500) * 1600 - 400000,
   longitude |-> 73789800 + JsRem(hash \div 256, 500) * 1600 - 400000]

generateCoordinates(locationName) == coordinatesOf(NameHash(locationName))

-----------------------------------------------------------------------------
(* Water score engine (waterScore.js)                                        *)

THRESHOLDS ==
  [waterLevel |-> [min |-> RInt(4),   max |-> RInt(20)],
   rainfall   |-> [min |-> RInt(500), max |-> RInt(1500)],
   depletion  |-> [min |-> RInt(0),   max |-> RInt(10)],
   ph         |-> [ideal |-> RInt(7), range |-> Rat(3, 2)]]

\* normalize without the clamp to [min, max].
normalize_NoClamp(value, min, max, invert) ==
  LET normalized == RMul(RDiv(RSub(value, min), RSub(max, min)), RInt(100))
  IN  IF invert THEN RSub(RInt(100), normalized) ELSE normalized

normalize(value, min, max, invert) ==
  LET clamped    == RMax(min, RMin(max, value))
      normalized == RMul(RDiv(RSub(clamped, min), RSub(max, min)), RInt(100))
  IN  IF invert THEN RSub(RInt(100), normalized) ELSE normalized

\* The weighted sum of calculateWaterScore, rounded, with another
\* normalization and another orientation of the rainfall score, and without
\* the final clamp to [0, 100].
scoreVariant(data, norm(_, _, _, _), rainfallInvert) ==
  MathRound(
    RAdd(RAdd(RMul(norm(Tenths(data.groundwaterLevel), THRESHOLDS.waterLevel.min,
                        THRESHOLDS.waterLevel.max, TRUE), Rat(35, 100)),
              RMul(norm(Tenths(data.rainfall), THRESHOLDS.rainfall.min,
                        THRESHOLDS.rainfall.max, rainfallInvert), Rat(25, 100))),
         RAdd(RMul(norm(Tenths(data.depletionRate), THRESHOLDS.depletion.min,
                        THRESHOLDS.depletion.max, TRUE), Rat(30, 100)),
              RMul(norm(RAbs(RSub(Tenths(data.ph), THRESHOLDS.ph.ideal)), RInt(0),
                        THRESHOLDS.ph.range, TRUE), Rat(10, 100)))))

\* A score that clamps nothing.
calculateWaterScore_Unclamped(data) == scoreVariant(data, normalize_NoClamp, FALSE)

\* A score in which more rainfall counts against the location.
calculateWaterScore_RainInverted(data) == scoreVariant(data, normalize, TRUE)

calculateWaterScore(data) ==
  LET waterLevelScore == normalize(Tenths(data.groundwaterLevel),
                           THRESHOLDS.waterLevel.min, THRESHOLDS.waterLevel.max, TRUE)
      rainfallScore   == normalize(Tenths(data.rainfall),
                           THRESHOLDS.rainfall.min, THRESHOLDS.rainfall.max, FALSE)
      depletionScore  == normalize(Tenths(data.depletionRate),
                           THRESHOLDS.depletion.min, THRESHOLDS.depletion.max, TRUE)
      phDeviation     == RAbs(RSub(Tenths(data.ph), THRESHOLDS.ph.ideal))
      phScore         == normalize(phDeviation, RInt(0), THRESHOLDS.ph.range, TRUE)
      score == RAdd(RAdd(RMul(waterLevelScore, Rat(35, 100)),
                         RMul(rainfallScore, Rat(25, 100))),
                    RAdd(RMul(depletionScore, Rat(30, 100)),
                         RMul(phScore, Rat(10, 100))))
  IN  MathRound(RMax(RInt(0), RMin(RInt(100), score)))

\* getStatus with 70 itself not yet Safe.
getStatus_StrictBoundary(score) ==
  IF score > 70 THEN "Safe" ELSE IF score >= 40 THEN "Warning" ELSE "Critical"

getStatus(score) ==
  IF score >= 70 THEN "Safe" ELSE IF score >= 40 THEN "Warning" ELSE "Critical"

getStatusColor(score) ==
  IF score >= 70 THEN "#22c55e" ELSE IF score >= 40 THEN "#eab308" ELSE "#ef4444"

\* ph in tenths
calculateWQI(ph) ==
  LET deviation == Abs(ph - 70)
  IN  IF deviation <= 5 THEN [index |-> "Excellent", value |-> 95]
      ELSE IF deviation <= 10 THEN [index |-> "Good", value |-> 75]
      ELSE IF deviation <= 15 THEN [index |-> "Fair", value |-> 55]
      ELSE [index |-> "Poor", value |-> 30]

\* depletionRate in tenths
calculateDepletionIndex(depletionRate) ==
  IF depletionRate <= 20 THEN [index |-> "Sustainable", value |-> 90]
  ELSE IF depletionRate <= 40 THEN [index |-> "Moderate", value |-> 65]
  ELSE IF depletionRate <= 60 THEN [index |-> "Concerning", value |-> 40]
  ELSE [index |-> "Critical", value |-> 15]

calculateSustainabilityScore(data) ==
  LET rechargeCapacity == RMul(normalize(Tenths(data.rainfall), RInt(500), RInt(1500), FALSE),
                               Rat(40, 100))
      extractionImpact == RMul(normalize(Tenths(data.depletionRate), RInt(0), RInt(10), TRUE),
                               Rat(35, 100))
      qualityFactor    == RMul(normalize(RAbs(RSub(Tenths(data.ph), RInt(7))),
                                         RInt(0), Rat(3, 2), TRUE),
                               Rat(25, 100))
  IN  MathRound(RAdd(RAdd(rechargeCapacity, extractionImpact), qualityFactor))

\* { ...d, waterScore, status, statusColor, wqi, depletionIndex, sustainabilityScore }
scoreFields(score) ==
  [waterScore |-> score, status |-> getStatus(score), statusColor |-> getStatusColor(score)]

enrichRecord(d) ==
  scoreFields(calculateWaterScore(d))
    @@ [wqi                 |-> calculateWQI(d.ph),
        depletionIndex      |-> calculateDepletionIndex(d.depletionRate),
        sustainabilityScore |-> calculateSustainabilityScore(d)]
    @@ d

-----------------------------------------------------------------------------
(* Synthetic series generator (dataStore.js generateMultiYearData)           *)

years == <<2016, 2017, 2018, 2019, 2020, 2021>>

\* One synthesized record; `now` is the reading of `new Date()`.
generateRecord(baseRow, hash, year, now) ==
  LET offset    == RInt(year - baseRow.year)
      varSeed   == (Abs(hash) + year) % 100
      variation == Rat(varSeed - 50, 200)
      depletionDelta == RAdd(RMul(offset, Rat(25, 100)), RMul(variation, Rat(4, 10)))
      rainfallDelta  == RAdd(RMul(offset, RInt(-8)), RMul(variation, RInt(35)))
      levelDelta     == RAdd(RMul(offset, Rat(15, 100)), RMul(variation, Rat(35, 100)))
      newDepletion   == Max(5, ToFixed1(RAdd(Tenths(baseRow.depletionRate), depletionDelta)))
      newRainfall    == Max(4000, ToFixed0(RAdd(Tenths(baseRow.rainfall), rainfallDelta)))
      newLevel       == Max(30, ToFixed1(RAdd(Tenths(baseRow.groundwaterLevel), levelDelta)))
      newConsumption == Max(1000, ToFixed0(RAdd(Tenths(baseRow.consumption),
                            RAdd(RMul(offset, RInt(8)), RMul(variation, RInt(15))))))
      newPh          == Max(60, Min(90, ToFixed1(RAdd(Tenths(baseRow.ph),
                            RMul(variation, Rat(25, 100))))))
      newAgri        == Max(500, ToFixed0(RAdd(Tenths(baseRow.agriculturalUsage),
                            RAdd(RMul(offset, RInt(4)), RMul(variation, RInt(12))))))
      newIndustrial  == Max(100, ToFixed0(RAdd(Tenths(baseRow.industrialUsage),
                            RAdd(RMul(offset, RInt(2)), RMul(variation, RInt(8))))))
      newHousehold   == Max(200, ToFixed0(RAdd(Tenths(baseRow.householdUsage),
                            RAdd(RMul(offset, RInt(2)), RMul(variation, RInt(6))))))
      newPerCapita   == Max(500, ToFixed0(RAdd(Tenths(baseRow.perCapitaUsage),
                            RAdd(RMul(offset, Rat(15, 10)), RMul(variation, RInt(4))))))
      scarcity ==
        IF newDepletion >= 60 THEN "Severe"
        ELSE IF newDepletion >= 50 THEN "High"
        ELSE IF newDepletion >= 30 THEN (IF newRainfall < 7500 THEN "High" ELSE "Moderate")
        ELSE "Low"
  IN  [location          |-> baseRow.location,
       year              |-> year,
       consumption       |-> newConsumption,
       perCapitaUsage    |-> newPerCapita,
       agriculturalUsage |-> newAgri,
       industrialUsage   |-> newIndustrial,
       householdUsage    |-> newHousehold,
       rainfall          |-> newRainfall,
       depletionRate     |-> newDepletion,
       scarcityLevel     |-> scarcity,
       ph                |-> newPh,
       groundwaterLevel  |-> newLevel,
       lastUpdated       |-> now]

generateMultiYearData(baseRow, now) ==
  LET hash == generatorSeed(CharCodes(baseRow.location))
  IN  [i \in 1..Len(years) |->
         IF years[i] = baseRow.year THEN baseRow
         ELSE generateRecord(baseRow, hash, years[i], now)]

-----------------------------------------------------------------------------
(* The data store (dataStore.js): mutations                                  *)

Null == <<>>

\* `r.latitude && r.longitude`: both present (parseCSV maps 0 and NaN to null).
HasCoords(r) == r.latitude # Null /\ r.longitude # Null

\* The Location pushed for a row whose name is new.
NewLocation(r) ==
  LET coords == IF HasCoords(r)
                THEN [latitude |-> r.latitude[1], longitude |-> r.longitude[1]]
                ELSE generateCoordinates(r.location)
  IN  [name |-> r.location, latitude |-> coords.latitude, longitude |-> coords.longitude,
       district |-> "Nashik", state |-> "Maharashtra"]

\* csvParser.js: a row is kept if `cleaned.location && !isNaN(cleaned.year)`,
\* and every kept row gets lastUpdated: new Date() when it is parsed.  A row
\* whose Year column is not a number is a record without the field year.
parseCSV(fileRows, now) ==
  LET kept == SelectIdx(fileRows, [i \in 1..Len(fileRows) |->
                fileRows[i].location # "" /\ "year" \in DOMAIN fileRows[i]])
  IN  [i \in 1..Len(kept) |-> [lastUpdated |-> now] @@ kept[i]]

\* loadData, the rebuilt waterData: generateMultiYearData of every row, in order.
RECURSIVE LoadWaterData(_, _)
LoadWaterData(rows, now) ==
  IF rows = <<>> THEN <<>>
  ELSE generateMultiYearData(Head(rows), now) \o LoadWaterData(Tail(rows), now)

\* A rebuild of locations that pushes a Location for every row.
RECURSIVE LoadLocations_NoSeen(_, _)
LoadLocations_NoSeen(rows, seen) ==
  IF rows = <<>> THEN <<>>
  ELSE <<NewLocation(Head(rows))>> \o LoadLocations_NoSeen(Tail(rows), seen)

\* loadData, the rebuilt locations: one per name, in order of first appearance.
RECURSIVE LoadLocations(_, _)
LoadLocations(rows, seen) ==
  IF rows = <<>> THEN <<>>
  ELSE LET r == Head(rows)
       IN  IF r.location \in seen THEN LoadLocations(Tail(rows), seen)
           ELSE <<NewLocation(r)>> \o LoadLocations(Tail(rows), seen \cup {r.location})

\* addWaterData without the removal of the stored record of the same key.
AddRow_NoRemove(st, row) ==
  LET known == \E i \in 1..Len(st.locs) : st.locs[i].name = row.location
  IN  [wd   |-> Append(st.wd, row),
       locs |-> IF known THEN st.locs ELSE Append(st.locs, NewLocation(row))]

\* addWaterData, one iteration of its loop, on the pair [wd, locs].
AddRow(st, row) ==
  LET kept == SelectIdx(st.wd, [i \in 1..Len(st.wd) |->
                ~(st.wd[i].location = row.location /\ st.wd[i].year = row.year)])
      known == \E i \in 1..Len(st.locs) : st.locs[i].name = row.location
  IN  [wd   |-> Append(kept, row),
       locs |-> IF known THEN st.locs ELSE Append(st.locs, NewLocation(row))]

RECURSIVE addWaterData(_, _)
addWaterData(st, rows) ==
  IF rows = <<>> THEN st ELSE addWaterData(AddRow(st, Head(rows)), Tail(rows))

-----------------------------------------------------------------------------
(* The data store: queries.  Each takes the arrays it reads as arguments.    *)

getWaterByLocation(wd, locationName) ==
  LET hit == SelectIdx(wd, [i \in 1..Len(wd) |-> wd[i].location = locationName])
  IN  StableSortByKey(hit, [i \in 1..Len(hit) |-> hit[i].year])

getLatestByLocation(wd, locationName) ==
  LET records == getWaterByLocation(wd, locationName)
  IN  IF Len(records) > 0 THEN <<records[Len(records)]>> ELSE Null

\* Property names every plain object `{}` inherits from Object.prototype.  For
\* such a key k, latestMap[k] is an inherited (truthy) value whose .year is
\* undefined, so `!latestMap[k] || d.year > latestMap[k].year` is false.
ObjectPrototypeKeys ==
  {"constructor", "__proto__", "toString", "toLocaleString", "valueOf",
   "hasOwnProperty", "isPrototypeOf", "propertyIsEnumerable",
   "__defineGetter__", "__defineSetter__", "__lookupGetter__", "__lookupSetter__"}

\* const latestMap = {}; for (const d of waterData) if (!latestMap[d.location]
\* || d.year > latestMap[d.location].year) latestMap[d.location] = d;
\* followed by Object.values(latestMap): the entries in the order in which
\* their keys were first set (the names of the model are not integer-like).
RECURSIVE LatestFold(_, _)
LatestFold(acc, rest) ==
  IF rest = <<>> THEN acc
  ELSE LET d   == Head(rest)
           idx == {i \in 1..Len(acc) : acc[i].location = d.location}
       IN  IF d.location \in ObjectPrototypeKeys THEN LatestFold(acc, Tail(rest))
           ELSE IF idx = {} THEN LatestFold(Append(acc, d), Tail(rest))
           ELSE LET i == CHOOSE j \in idx : TRUE
                IN  IF d.year > acc[i].year
                    THEN LatestFold([acc EXCEPT ![i] = d], Tail(rest))
                    ELSE LatestFold(acc, Tail(rest))

latestValues(wd) == LatestFold(<<>>, wd)

getLocationByName(locs, name) ==
  LET idx == {i \in 1..Len(locs) : locs[i].name = name}
  IN  IF idx = {} THEN Null
      ELSE <<locs[CHOOSE i \in idx : \A j \in idx : i <= j]>>

getOverviewData(wd, locs) ==
  LET latest == latestValues(wd)
      coordsOf(name) ==
        LET l == getLocationByName(locs, name)
        IN  IF l = Null THEN [latitude |-> 19997500, longitude |-> 73789800]
            ELSE [latitude |-> l[1].latitude, longitude |-> l[1].longitude]
  IN  [i \in 1..Len(latest) |->
         LET d == latest[i]
             score == calculateWaterScore(d)
         IN  [location         |-> d.location,
              year             |-> d.year,
              waterScore       |-> score,
              status           |-> getStatus(score),
              statusColor      |-> getStatusColor(score),
              scarcityLevel    |-> d.scarcityLevel,
              groundwaterLevel |-> d.groundwaterLevel,
              rainfall         |-> d.rainfall,
              depletionRate    |-> d.depletionRate,
              ph               |-> d.ph,
              consumption      |-> d.consumption,
              perCapitaUsage   |-> d.perCapitaUsage,
              coordinates      |-> coordsOf(d.location)]]

RECURSIVE SumOf(_)
SumOf(s) == IF s = <<>> THEN 0 ELSE Head(s) + SumOf(Tail(s))

CountIf(s, keep) == Cardinality({i \in 1..Len(s) : keep[i]})

\* The object `{}`: a record with no field.
EmptyObject == [x \in {} |-> x]

\* getDistrictStats.  The averages are +(total / n).toFixed(k): avgWaterLevel and
\* avgDepletion in hundredths, avgRainfall in tenths.
getDistrictStats(wd) ==
  LET latestArr == latestValues(wd)
      n == Len(latestArr)
      totalWaterLevel == SumOf([i \in 1..n |-> latestArr[i].groundwaterLevel])
      totalRainfall   == SumOf([i \in 1..n |-> latestArr[i].rainfall])
      totalDepletion  == SumOf([i \in 1..n |-> latestArr[i].depletionRate])
      isCritical(d) == d.scarcityLevel = "Severe" \/ d.scarcityLevel = "Extreme"
      isWarning(d)  == ~isCritical(d) /\ d.scarcityLevel = "High"
  IN  IF n = 0 THEN EmptyObject
      ELSE [totalLocations |-> n,
            avgWaterLevel  |-> RoundHalfAway(Rat(totalWaterLevel * 10, n)),
            avgRainfall    |-> RoundHalfAway(Rat(totalRainfall, n)),
            avgDepletion   |-> RoundHalfAway(Rat(totalDepletion * 10, n)),
            criticalCount  |-> CountIf(latestArr, [i \in 1..n |-> isCritical(latestArr[i])]),
            warningCount   |-> CountIf(latestArr, [i \in 1..n |-> isWarning(latestArr[i])]),
            safeCount      |-> CountIf(latestArr, [i \in 1..n |->
                                 ~isCritical(latestArr[i]) /\ ~isWarning(latestArr[i])])]

\* The trend label getRankings, getLocationSummary and getSearchSuggestions
\* derive from the last two records of a series.
trendOf(records, latestScore) ==
  IF Len(records) >= 2
  THEN LET prevScore == calculateWaterScore(records[Len(records) - 1])
           diff == latestScore - prevScore
       IN  IF diff > 3 THEN "improving" ELSE IF diff < -3 THEN "declining" ELSE "stable"
  ELSE "stable"

\* The comparator with its operands exchanged: an ascending sort.
sortRanked_Ascending(ranked) ==
  StableSortByKey(ranked, [i \in 1..Len(ranked) |-> ranked[i].waterScore])

\* ranked.sort((a, b) => b.waterScore - a.waterScore): descending, stable.
sortRanked(ranked) ==
  StableSortByKey(ranked, [i \in 1..Len(ranked) |-> -ranked[i].waterScore])

\* The entry getRankings maps a latest record `d` to, `enriched` being
\* enrichRecord(d) and `records` the series of d.location.
rankedEntry(d, enriched, records) ==
  [location         |-> d.location,
   waterScore       |-> enriched.waterScore,
   status           |-> enriched.status,
   statusColor      |-> enriched.statusColor,
   scarcityLevel    |-> d.scarcityLevel,
   groundwaterLevel |-> d.groundwaterLevel,
   rainfall         |-> d.rainfall,
   depletionRate    |-> d.depletionRate,
   trend            |-> trendOf(records, enriched.waterScore)]

\* ranked.forEach((item, i) => { item.rank = i + 1; })
withRanks(sorted) == [i \in 1..Len(sorted) |-> [rank |-> i] @@ sorted[i]]

rankedOf(wd, latest) ==
  [i \in 1..Len(latest) |->
     rankedEntry(latest[i], enrichRecord(latest[i]),
                 getWaterByLocation(wd, latest[i].location))]

getRankings(wd) == withRanks(sortRanked(rankedOf(wd, latestValues(wd))))

\* A JavaScript number that may fail to be finite: [finite |-> TRUE, v |-> k]
\* or, for NaN and the infinities, NonFinite.
Finite(k) == [finite |-> TRUE, v |-> k]
NonFinite == [finite |-> FALSE, v |-> 0]

\* +(x / y * 100).toFixed(1) in tenths of a percent; x / 0 is NaN or an infinity.
percentOf(x, y) ==
  IF y = 0 THEN NonFinite
  ELSE Finite(RoundHalfAway(RMul(RDiv(RInt(x), RInt(y)), RInt(1000))))

safeDiv_NoZeroGuard(a, b) == percentOf(a - b, Abs(b))

\* const safeDiv = (a, b) => b !== 0 ? +((a - b) / Math.abs(b) * 100).toFixed(1) : 0
safeDiv(a, b) == IF b # 0 THEN percentOf(a - b, Abs(b)) ELSE Finite(0)

metricChange(prev, curr) ==
  [prev |-> prev, curr |-> curr, changePct |-> safeDiv(curr, prev)]

getYearlyChanges(wd, locationName) ==
  LET records == getWaterByLocation(wd, locationName)
  IN  IF Len(records) < 2 THEN <<>>
      ELSE [k \in 1..(Len(records) - 1) |->
              LET cur == records[k + 1]
                  prv == records[k]
              IN  [from        |-> prv.year,
                   to          |-> cur.year,
                   waterLevel  |-> metricChange(prv.groundwaterLevel, cur.groundwaterLevel),
                   rainfall    |-> metricChange(prv.rainfall, cur.rainfall),
                   depletion   |-> metricChange(prv.depletionRate, cur.depletionRate),
                   consumption |-> metricChange(prv.consumption, cur.consumption),
                   ph          |-> metricChange(prv.ph, cur.ph)]]

\* Array.prototype.slice(0, k)
Take(s, k) == SubSeq(s, 1, Min(k, Len(s)))

\* +((cur - prv) / (prv || 1) * 100).toFixed(1) in tenths of a percent; for
\* prv = 0 the divisor is 1 and the result is cur * 100 percent.
yoyChange(cur, prv) ==
  IF prv # 0 THEN percentOf(cur - prv, prv) ELSE Finite(cur * 100)

\* getLocationSummary, the yoyChanges of a series of at least two records.
yoyChangesOf(records) ==
  [k \in 1..(Len(records) - 1) |->
     LET cur == records[k + 1]
         prv == records[k]
     IN  [from             |-> prv.year,
          to               |-> cur.year,
          waterLevelChange |-> yoyChange(cur.groundwaterLevel, prv.groundwaterLevel),
          rainfallChange   |-> yoyChange(cur.rainfall, prv.rainfall),
          depletionChange  |-> yoyChange(cur.depletionRate, prv.depletionRate)]]

\* getLocationSummary, the quick alert count estimate of the latest record.
alertCountOf(latest) ==
  (IF latest.groundwaterLevel >= 120 THEN 1 ELSE 0)
    + (IF latest.depletionRate >= 50 THEN 1 ELSE 0)
    + (IF latest.rainfall <= 7000 THEN 1 ELSE 0)
    + (IF latest.ph < 65 \/ latest.ph > 80 THEN 1 ELSE 0)
    + (IF latest.scarcityLevel = "Severe" \/ latest.scarcityLevel = "Extreme" THEN 1 ELSE 0)

\* The object getLocationSummary returns, `records` being the series of the
\* location, `latest` its last record and `enriched` enrichRecord(latest).
\* The narrative is the record of the values its text interpolates.
summaryOf(locationName, records, latest, enriched, trend, alertCount) ==
  [location            |-> locationName,
   year                |-> latest.year,
   waterScore          |-> enriched.waterScore,
   status              |-> enriched.status,
   statusColor         |-> enriched.statusColor,
   groundwaterLevel    |-> latest.groundwaterLevel,
   rainfall            |-> latest.rainfall,
   depletionRate       |-> latest.depletionRate,
   ph                  |-> latest.ph,
   scarcityLevel       |-> latest.scarcityLevel,
   wqi                 |-> enriched.wqi,
   depletionIndex      |-> enriched.depletionIndex,
   sustainabilityScore |-> enriched.sustainabilityScore,
   trend               |-> trend,
   alertCount          |-> alertCount,
   yoyChanges          |-> IF Len(records) >= 2 THEN yoyChangesOf(records) ELSE <<>>,
   narrative           |-> [location |-> locationName, waterScore |-> enriched.waterScore,
                            status |-> enriched.status,
                            groundwaterLevel |-> latest.groundwaterLevel,
                            rainfall |-> latest.rainfall, trend |-> trend,
                            alertCount |-> alertCount, plural |-> alertCount # 1],
   yearsAvailable      |-> [i \in 1..Len(records) |-> records[i].year]]

summaryFor(locationName, records, enriched) ==
  summaryOf(locationName, records, records[Len(records)], enriched,
            trendOf(records, enriched.waterScore), alertCountOf(records[Len(records)]))

\* getLocationSummary: Null for a location without records.
getLocationSummary(wd, locationName) ==
  LET records == getWaterByLocation(wd, locationName)
  IN  IF Len(records) = 0 THEN Null
      ELSE <<summaryFor(locationName, records, enrichRecord(records[Len(records)]))>>

\* String.prototype.toLowerCase on UTF-16 code units: A..Z go to a..z.
toLowerCase(codes) ==
  [i \in 1..Len(codes) |-> IF codes[i] >= 65 /\ codes[i] <= 90 THEN codes[i] + 32 ELSE codes[i]]

\* String.prototype.includes
includes(codes, part) ==
  \E off \in 0..(Len(codes) - Len(part)) :
    \A i \in 1..Len(part) : codes[off + i] = part[i]

\* The suggestion getSearchSuggestions maps a matching Location to.
suggestionOf(loc, latest, records) ==
  IF latest = Null THEN [name |-> loc.name, district |-> loc.district]
  ELSE [name             |-> loc.name,
        district         |-> loc.district,
        waterScore       |-> calculateWaterScore(latest[1]),
        status           |-> getStatus(calculateWaterScore(latest[1])),
        trend            |-> trendOf(records, calculateWaterScore(latest[1])),
        scarcityLevel    |-> latest[1].scarcityLevel,
        groundwaterLevel |-> latest[1].groundwaterLevel]

\* getSearchSuggestions(query), the query being a sequence of code units.
getSearchSuggestions(wd, locs, query) ==
  IF Len(query) < 1 THEN <<>>
  ELSE LET matching == Take(SelectIdx(locs, [i \in 1..Len(locs) |->
                         includes(toLowerCase(CharCodes(locs[i].name)), toLowerCase(query))]), 10)
       IN  [i \in 1..Len(matching) |->
              suggestionOf(matching[i], getLatestByLocation(wd, matching[i].name),
                           getWaterByLocation(wd, matching[i].name))]

\* getHeatmapData; intensity = +Math.max(0.1, (100 - score) / 100).toFixed(2),
\* in hundredths.  Entries without a Location are dropped (filter(Boolean)).
getHeatmapData(wd, locs) ==
  LET latest == latestValues(wd)
      known  == SelectIdx(latest, [i \in 1..Len(latest) |->
                  getLocationByName(locs, latest[i].location) # Null])
  IN  [i \in 1..Len(known) |->
         LET d == known[i]
             loc == getLocationByName(locs, d.location)[1]
             score == calculateWaterScore(d)
         IN  [lat        |-> loc.latitude,
              lng        |-> loc.longitude,
              intensity  |-> Max(10, 100 - score),
              location   |-> d.location,
              waterScore |-> score,
              status     |-> getStatus(score)]]

-----------------------------------------------------------------------------
(* District-wide alerts and updates (alertEngine.js).  The texts are left    *)
(* out; every number and name a text carries is a field.  The timestamp and  *)
(* date fields, read from the clock and not from the data, are left out.     *)

ALERT_THRESHOLDS ==
  [criticalWaterLevel |-> RInt(15), warningWaterLevel |-> RInt(12),
   highDepletion |-> RInt(5), criticalDepletion |-> RInt(7),
   lowRainfall |-> RInt(700), criticalRainfall |-> RInt(600),
   highPH |-> RInt(8), lowPH |-> Rat(13, 2), highConsumption |-> RInt(500)]

\* One alert; message, recommendation and timestamp are left out, and the
\* title is written without its emoji.
Alert(type, category, title, value) ==
  [type |-> type, category |-> category, title |-> title, value |-> value]

\* The threshold alerts of generateAlerts, on the latest record `data`.
thresholdAlerts(data) ==
  LET T == ALERT_THRESHOLDS
      atLeast(v, t) == RLeq(t, Tenths(v))
      atMost(v, t)  == RLeq(Tenths(v), t)
  IN  (IF atLeast(data.groundwaterLevel, T.criticalWaterLevel)
       THEN <<Alert("critical", "Water Level", "Critical Water Level", data.groundwaterLevel)>>
       ELSE IF atLeast(data.groundwaterLevel, T.warningWaterLevel)
       THEN <<Alert("warning", "Water Level", "Low Water Table", data.groundwaterLevel)>>
       ELSE <<>>)
   \o (IF atLeast(data.depletionRate, T.criticalDepletion)
       THEN <<Alert("critical", "Depletion", "Over-extraction Detected", data.depletionRate)>>
       ELSE IF atLeast(data.depletionRate, T.highDepletion)
       THEN <<Alert("warning", "Depletion", "High Depletion Rate", data.depletionRate)>>
       ELSE <<>>)
   \o (IF atMost(data.rainfall, T.criticalRainfall)
       THEN <<Alert("critical", "Rainfall", "Drought Risk", data.rainfall)>>
       ELSE IF atMost(data.rainfall, T.lowRainfall)
       THEN <<Alert("warning", "Rainfall", "Below Normal Rainfall", data.rainfall)>>
       ELSE <<>>)
   \o (IF atLeast(data.ph, T.highPH) \/ atMost(data.ph, T.lowPH)
       THEN <<Alert("warning", "Water Quality", "pH Imbalance", data.ph)>>
       ELSE <<>>)
   \o (IF atLeast(data.consumption, T.highConsumption)
       THEN <<Alert("info", "Consumption", "High Water Consumption", data.consumption)>>
       ELSE <<>>)
   \o (IF data.scarcityLevel = "Severe" \/ data.scarcityLevel = "Extreme"
       THEN <<Alert("critical", "Scarcity", "Water Scarcity", data.scarcityLevel)>>
       ELSE <<>>)

\* The counting loops of generateAlerts: the counter goes up on a step that
\* satisfies the comparison and back to 0 on one that does not.
RECURSIVE countRun(_, _)
countRun(flags, count) ==
  IF flags = <<>> THEN count
  ELSE countRun(Tail(flags), IF Head(flags) THEN count + 1 ELSE 0)

\* The trend alerts of generateAlerts over `sorted`, the history by year.
trendAlerts(sorted) ==
  LET n == Len(sorted)
      consecutiveRise == countRun([i \in 1..(n - 1) |->
          sorted[i + 1].groundwaterLevel > sorted[i].groundwaterLevel], 0)
      consecutiveDepIncrease == countRun([i \in 1..(n - 1) |->
          sorted[i + 1].depletionRate > sorted[i].depletionRate], 0)
      consecutiveRainfallDrop == countRun([i \in 1..(n - 1) |->
          sorted[i + 1].rainfall < sorted[i].rainfall], 0)
      half      == n \div 2
      avgFirst  == Rat(SumOf([i \in 1..half |-> calculateWaterScore(sorted[i])]), half)
      avgSecond == Rat(SumOf([i \in 1..(n - half) |-> calculateWaterScore(sorted[half + i])]),
                       n - half)
  IN  (IF consecutiveRise >= 3
       THEN <<Alert("warning", "Trend", "Sustained Water Level Decline", consecutiveRise)>>
       ELSE <<>>)
   \o (IF consecutiveDepIncrease >= 3
       THEN <<Alert("critical", "Trend", "Accelerating Depletion Trend", consecutiveDepIncrease)>>
       ELSE <<>>)
   \o (IF consecutiveRainfallDrop >= 3
       THEN <<Alert("warning", "Trend", "Declining Rainfall Pattern", consecutiveRainfallDrop)>>
       ELSE <<>>)
   \o (IF RLt(avgSecond, RSub(avgFirst, RInt(10)))
       THEN <<Alert("warning", "Trend", "Overall Water Health Declining",
                    MathRound(RSub(avgSecond, avgFirst)))>>
       ELSE <<>>)

\* generateAlerts(data, history); history is Null when the argument is absent.
generateAlerts(data, history) ==
  thresholdAlerts(data)
    \o (IF history # Null /\ Len(history[1]) >= 3
        THEN trendAlerts(StableSortByKey(history[1],
                           [i \in 1..Len(history[1]) |-> history[1][i].year]))
        ELSE <<>>)

generateDistrictAlerts(overviewData) ==
  LET n == Len(overviewData)
      criticalLocs == SelectIdx(overviewData, [i \in 1..n |-> overviewData[i].status = "Critical"])
      warningLocs  == SelectIdx(overviewData, [i \in 1..n |-> overviewData[i].status = "Warning"])
      safeLocs     == SelectIdx(overviewData, [i \in 1..n |-> overviewData[i].status = "Safe"])
      avgDepletion  == Rat(SumOf([i \in 1..n |-> overviewData[i].depletionRate]), 10 * n)
      avgRainfall   == Rat(SumOf([i \in 1..n |-> overviewData[i].rainfall]), 10 * n)
      avgWaterLevel == Rat(SumOf([i \in 1..n |-> overviewData[i].groundwaterLevel]), 10 * n)
      lowRainfallLocs   == CountIf(overviewData, [i \in 1..n |-> overviewData[i].rainfall < 7000])
      highDepletionLocs == CountIf(overviewData, [i \in 1..n |-> overviewData[i].depletionRate >= 50])
      \* d.waterScore || 50
      avgScore == Rat(SumOf([i \in 1..n |-> IF overviewData[i].waterScore = 0 THEN 50
                                               ELSE overviewData[i].waterScore]), n)
      zones ==
        IF Len(criticalLocs) > 0
        THEN <<[type |-> "critical", category |-> "District Overview",
                title |-> "Critical Zones Detected",
                value |-> Len(criticalLocs), of |-> n, threshold |-> 0,
                priority |-> [i \in 1..Len(Take(criticalLocs, 3)) |-> criticalLocs[i].location],
                more |-> IF Len(criticalLocs) > 3 THEN Len(criticalLocs) - 3 ELSE 0]>>
        ELSE <<>>
      widespread ==
        IF Len(warningLocs) > 5
        THEN <<[type |-> "warning", category |-> "District Overview",
                title |-> "Widespread Warning Status",
                value |-> Len(warningLocs), threshold |-> 5]>>
        ELSE <<>>
      depletion ==
        IF RLeq(ALERT_THRESHOLDS.highDepletion, avgDepletion)
        THEN <<[type |-> IF RLeq(ALERT_THRESHOLDS.criticalDepletion, avgDepletion)
                         THEN "critical" ELSE "warning",
                category |-> "Depletion", title |-> "High District Depletion Rate",
                value |-> avgDepletion, stations |-> highDepletionLocs, threshold |-> 5]>>
        ELSE <<>>
      rainfall ==
        IF RLt(avgRainfall, ALERT_THRESHOLDS.lowRainfall)
        THEN <<[type |-> IF RLt(avgRainfall, ALERT_THRESHOLDS.criticalRainfall)
                         THEN "critical" ELSE "warning",
                category |-> "Rainfall", title |-> "District Rainfall Deficit",
                value |-> avgRainfall, stations |-> lowRainfallLocs, threshold |-> 700]>>
        ELSE <<>>
      level ==
        IF RLeq(ALERT_THRESHOLDS.warningWaterLevel, avgWaterLevel)
        THEN <<[type |-> IF RLeq(ALERT_THRESHOLDS.criticalWaterLevel, avgWaterLevel)
                         THEN "critical" ELSE "warning",
                category |-> "Water Level", title |-> "Deep Water Table Alert",
                value |-> avgWaterLevel, threshold |-> 12]>>
        ELSE <<>>
      health ==
        <<[type |-> "info", category |-> "District Health",
           title |-> "District Water Health Index",
           value |-> avgScore, of |-> n, safe |-> Len(safeLocs),
           warning |-> Len(warningLocs), critical |-> Len(criticalLocs)]>>
  IN  IF n = 0 THEN <<>>
      ELSE zones \o widespread \o depletion \o rainfall \o level \o health

\* The averages are strings made by toFixed: avgDepletion, avgWaterLevel and
\* avgPH in tenths, avgRainfall in whole millimetres.
generateDistrictGovUpdates(overviewData) ==
  LET n == Len(overviewData)
      criticalCount == CountIf(overviewData, [i \in 1..n |-> overviewData[i].status = "Critical"])
      warningCount  == CountIf(overviewData, [i \in 1..n |-> overviewData[i].status = "Warning"])
      safeCount     == CountIf(overviewData, [i \in 1..n |-> overviewData[i].status = "Safe"])
      avgDepletion  == ToFixed1(Rat(SumOf([i \in 1..n |-> overviewData[i].depletionRate]), 10 * n))
      avgRainfall   == RoundHalfAway(Rat(SumOf([i \in 1..n |-> overviewData[i].rainfall]), 10 * n))
      avgWaterLevel == ToFixed1(Rat(SumOf([i \in 1..n |-> overviewData[i].groundwaterLevel]), 10 * n))
      \* d.ph || 7
      avgPH         == ToFixed1(Rat(SumOf([i \in 1..n |-> IF overviewData[i].ph = 0 THEN 70
                                                             ELSE overviewData[i].ph]), 10 * n))
  IN  IF n = 0 THEN <<>>
      ELSE <<[id |-> 1, stations |-> n, safeCount |-> safeCount, warningCount |-> warningCount,
              criticalCount |-> criticalCount, avgWaterLevel |-> avgWaterLevel,
              avgDepletion |-> avgDepletion,
              priority |-> IF criticalCount > 10 THEN "high" ELSE "normal"],
             [id |-> 2, avgRainfall |-> avgRainfall,
              priority |-> IF avgRainfall < 700 THEN "high" ELSE "normal"],
             [id |-> 3, avgPH |-> avgPH, withinLimits |-> (avgPH >= 65 /\ avgPH <= 80),
              priority |-> "normal"],
             [id |-> 4, stations |-> criticalCount + warningCount,
              priority |-> IF criticalCount > 5 THEN "high" ELSE "normal"],
             [id |-> 5, priority |-> "normal"]>>

Reverse(s) == [i \in 1..Len(s) |-> s[Len(s) + 1 - i]]

\* The body of getEnhancedDistrictStats over its two constants `base` and
\* `rankings`: { ...base, best5, worst5, districtTrend, trendDistribution,
\* avgChangeRates }; the change rates are in hundredths (waterLevel, depletion)
\* and tenths (rainfall), or Null.
enhance(base, rankings, wd, locs) ==
  LET brief(r) == [location |-> r.location, score |-> r.waterScore, status |-> r.status]
      first5   == Take(rankings, 5)
      last5    == SubSeq(rankings, Max(1, Len(rankings) - 4), Len(rankings))
      series   == [i \in 1..Len(locs) |-> getWaterByLocation(wd, locs[i].name)]
      multi    == SelectIdx(series, [i \in 1..Len(series) |-> Len(series[i]) >= 2])
      changeCount == Len(multi)
      total(field(_)) == SumOf([i \in 1..changeCount |->
                           field(multi[i][Len(multi[i])]) - field(multi[i][1])])
      wl(r) == r.groundwaterLevel
      rf(r) == r.rainfall
      dp(r) == r.depletionRate
      improving == CountIf(rankings, [i \in 1..Len(rankings) |-> rankings[i].trend = "improving"])
      declining == CountIf(rankings, [i \in 1..Len(rankings) |-> rankings[i].trend = "declining"])
      stable    == Len(rankings) - improving - declining
  IN  [best5  |-> [i \in 1..Len(first5) |-> brief(first5[i])],
       worst5 |-> [i \in 1..Len(last5) |-> brief(Reverse(last5)[i])],
       districtTrend |-> IF 2 * declining > 3 * improving THEN "declining"
                         ELSE IF 2 * improving > 3 * declining THEN "improving"
                         ELSE "stable",
       trendDistribution |-> [improving |-> improving, stable |-> stable,
                              declining |-> declining],
       avgChangeRates |-> IF changeCount > 0
                          THEN <<[waterLevel |-> RoundHalfAway(Rat(total(wl) * 10, changeCount)),
                                  rainfall   |-> RoundHalfAway(Rat(total(rf), changeCount)),
                                  depletion  |-> RoundHalfAway(Rat(total(dp) * 10, changeCount))]>>
                          ELSE Null] @@ base

getEnhancedDistrictStats(wd, locs) ==
  enhance(getDistrictStats(wd), getRankings(wd), wd, locs)

-----------------------------------------------------------------------------
(* Forecast engine (waterScore.js).  A point is [x |-> year, y |-> tenths].   *)

NaN == "NaN"

linearRegression(points) ==
  LET n     == Len(points)
      sumX  == SumOf([i \in 1..n |-> points[i].x])
      sumY  == SumOf([i \in 1..n |-> points[i].y])
      sumXY == SumOf([i \in 1..n |-> points[i].x * points[i].y])
      sumX2 == SumOf([i \in 1..n |-> points[i].x * points[i].x])
      slope == Rat(n * sumXY - sumX * sumY, n * sumX2 - sumX * sumX)
  IN  IF n < 2 THEN [slope |-> RInt(0), intercept |-> RInt(0)]
      ELSE [slope |-> slope,
            intercept |-> RDiv(RSub(RInt(sumY), RMul(slope, RInt(sumX))), RInt(n))]

RECURSIVE RSum(_)
RSum(s) == IF s = <<>> THEN RInt(0) ELSE RAdd(Head(s), RSum(Tail(s)))

\* calcResidualStdError returns the square root of this value.
residualVariance(points, reg) ==
  IF Len(points) < 3 THEN RInt(0)
  ELSE LET sq(p) == LET e == RSub(RInt(p.y), RAdd(RMul(reg.slope, RInt(p.x)), reg.intercept))
                    IN  RMul(e, e)
       IN  RDiv(RSum([i \in 1..Len(points) |-> sq(points[i])]), RInt(Len(points) - 2))

\* The square of confidenceMultiplier = 1.96 * sqrt(1 + 1/n + i*i / (3n)).
confidenceMultiplierSq(n, i) ==
  RMul(Rat(196 * 196, 100 * 100), RAdd(RInt(1), RAdd(Rat(1, n), Rat(i * i, 3 * n))))

\* The integer nearest to sqrt(X) for a rational X >= 0 (a half going up).
NearestToSqrt(X) ==
  IF 4 * X.n < X.d THEN 0
  ELSE CHOOSE k \in 1..(X.n + 1) :
         /\ (2 * k - 1) * (2 * k - 1) * X.d <= 4 * X.n
         /\ 4 * X.n < (2 * k + 1) * (2 * k + 1) * X.d

\* +(pred + sign * sqrt(X)).toFixed(..) for an integer pred already in the unit
\* of the result: a tie goes away from zero.
RoundOffset(pred, sign, X) ==
  LET k     == NearestToSqrt(X)
      isTie == k > 0 /\ (2 * k - 1) * (2 * k - 1) * X.d = 4 * X.n
      twice == 2 * pred + sign * (2 * k - 1)   \* twice the exact value, at a tie
  IN  IF ~isTie THEN pred + sign * k
      ELSE IF twice >= 0 THEN (twice + 1) \div 2 ELSE (twice - 1) \div 2

\* One metric of one prediction: the point estimate and its interval, in
\* units of 1/scale of a tenth (scale 10: hundredths; scale 1: tenths).
predictMetric(points, year, i, scale) ==
  LET reg  == linearRegression(points)
      pred == RoundHalfAway(RMul(RAdd(RMul(reg.slope, RInt(year)), reg.intercept), RInt(scale)))
      X    == RMul(RMul(residualVariance(points, reg), confidenceMultiplierSq(Len(points), i)),
                   RInt(scale * scale))
  IN  [value |-> Max(0, pred),
       lower |-> Max(0, RoundOffset(pred, -1, X)),
       upper |-> RoundOffset(pred, 1, X)]

confidenceLevel(i) == IF i <= 1 THEN "high" ELSE IF i <= 2 THEN "medium" ELSE "low"

\* With no history lastYear = Math.max() = -Infinity and every number of a
\* prediction is NaN; the list still has yearsAhead entries.
predictFuture(historicalData, yearsAhead) ==
  LET n == Len(historicalData)
      pts(field(_)) == [j \in 1..n |-> [x |-> historicalData[j].year, y |-> field(historicalData[j])]]
      wl(r) == r.groundwaterLevel
      rf(r) == r.rainfall
      dp(r) == r.depletionRate
      lastYear == CHOOSE y \in {historicalData[j].year : j \in 1..n} :
                    \A j \in 1..n : historicalData[j].year <= y
  IN  [i \in 1..Max(0, yearsAhead) |->
         IF n = 0
         THEN [year |-> "-Infinity",
               groundwaterLevel |-> NaN, groundwaterLevelCI |-> [lower |-> NaN, upper |-> NaN],
               rainfall |-> NaN, rainfallCI |-> [lower |-> NaN, upper |-> NaN],
               depletionRate |-> NaN, depletionRateCI |-> [lower |-> NaN, upper |-> NaN],
               confidenceLevel |-> confidenceLevel(i)]
         ELSE LET year == lastYear + i
                  w == predictMetric(pts(wl), year, i, 10)
                  r == predictMetric(pts(rf), year, i, 1)
                  d == predictMetric(pts(dp), year, i, 10)
              IN  [year |-> year,
                   groundwaterLevel |-> w.value,
                   groundwaterLevelCI |-> [lower |-> w.lower, upper |-> w.upper],
                   rainfall |-> r.value,
                   rainfallCI |-> [lower |-> r.lower, upper |-> r.upper],
                   depletionRate |-> d.value,
                   depletionRateCI |-> [lower |-> d.lower, upper |-> d.upper],
                   confidenceLevel |-> confidenceLevel(i)]]

\* const yearsAhead = parseInt(req.query.years) || 3; the query value is Null
\* (absent or not a number) or <<k>>.
yearsAheadOf(query) == IF query = Null \/ query[1] = 0 THEN 3 ELSE query[1]

\* The body of GET /api/water/:location/predictions, given the series of the
\* location.
getPredictions(data, query) ==
  IF Len(data) < 2
  THEN [status |-> 400, success |-> FALSE,
        message |-> "Need at least 2 years of data for predictions"]
  ELSE [status |-> 200, success |-> TRUE,
        predictions |-> predictFuture(data, yearsAheadOf(query)),
        basedOn |-> Len(data)]

-----------------------------------------------------------------------------
(* Inputs of the model                                                       *)

Names == {"A", "B", "constructor"}

ProfSafe ==
  [consumption |-> 3000, perCapitaUsage |-> 1350, agriculturalUsage |-> 1800,
   industrialUsage |-> 400, householdUsage |-> 800, rainfall |-> 12000,
   depletionRate |-> 10, scarcityLevel |-> "Low", ph |-> 70, groundwaterLevel |-> 50]

ProfCritical ==
  [consumption |-> 5200, perCapitaUsage |-> 1600, agriculturalUsage |-> 3100,
   industrialUsage |-> 900, householdUsage |-> 1200, rainfall |-> 5500,
   depletionRate |-> 80, scarcityLevel |-> "Severe", ph |-> 86, groundwaterLevel |-> 180]

\* A row whose numeric columns are missing: parseCSV's defaults.
ProfZero ==
  [consumption |-> 0, perCapitaUsage |-> 0, agriculturalUsage |-> 0,
   industrialUsage |-> 0, householdUsage |-> 0, rainfall |-> 0,
   depletionRate |-> 0, scarcityLevel |-> "Moderate", ph |-> 70, groundwaterLevel |-> 0]

\* A row whose Water Scarcity Level column says Severe while its metrics are
\* those of ProfSafe but for a depletion rate of 6.5.
ProfMixed == [ProfSafe EXCEPT !.depletionRate = 65, !.scarcityLevel = "Severe"]

FileRow(loc, year, prof, lat, lng) ==
  [location |-> loc, year |-> year, latitude |-> lat, longitude |-> lng] @@ prof

\* Contents of the startup CSV: empty, one location, two locations, one
\* location on two rows, a base year outside 2016..2021, a location whose
\* name is a property name of Object.prototype, and a row whose scarcity
\* level is not the one its metrics suggest.
StartupCSVs ==
  { <<>>,
    <<FileRow("A", 2020, ProfSafe, <<20010000>>, <<73800000>>)>>,
    <<FileRow("A", 2020, ProfSafe, <<20010000>>, <<73800000>>),
      FileRow("B", 2020, ProfSafe, Null, Null)>>,
    <<FileRow("A", 2020, ProfSafe, Null, Null),
      FileRow("A", 2021, ProfCritical, Null, Null)>>,
    <<FileRow("B", 2022, ProfCritical, Null, Null)>>,
    <<FileRow("constructor", 2020, ProfCritical, Null, Null)>>,
    <<FileRow("B", 2021, ProfMixed, Null, Null)>>,
    <<FileRow("A", 2020, ProfSafe, Null, Null),
      FileRow("constructor", 2020, ProfCritical, Null, Null)>> }

UploadRows ==
  { FileRow("A", 2022, ProfSafe, <<20010000>>, <<73800000>>),
    FileRow("B", 2022, ProfSafe, Null, Null),
    FileRow("A", 2022, ProfZero, Null, Null),
    FileRow("A", 2023, ProfCritical, Null, Null),
    FileRow("A", 2021, ProfCritical, Null, Null) }

BoundedSeqs(S, n) == UNION {[1..k -> S] : k \in 0..n}

\* req.file after multer: Null (no file) or <<rows>>, the rows of the file.
UploadFiles == {Null} \cup {<<rows>> : rows \in BoundedSeqs(UploadRows, MaxBatch)}

-----------------------------------------------------------------------------
(* State machine of the server                                               *)

NoResponse == [kind |-> "none"]

\* The library harnesses before any call.
LibIdle ==
  /\ alData = Null
  /\ alHistory = Null
  /\ alResult = NoResponse
  /\ engCall = NoResponse
  /\ engResult = NoResponse
  /\ hashName = <<>>
  /\ hashResult = NoResponse

Init ==
  /\ csvRows \in StartupCSVs
  /\ waterData = <<>>
  /\ locations = <<>>
  /\ cache = EmptyObject
  /\ dataLoaded = FALSE
  /\ loading = 0
  /\ loadsStarted = 0
  /\ clock = 0
  /\ requests = 0
  /\ uploads = 0
  /\ response = NoResponse
  /\ genBase = Null
  /\ genOut = <<>>
  /\ fcHistory = <<>>
  /\ fcYears = Null
  /\ fcResult = NoResponse
  /\ LibIdle

\* Time passes.
Tick ==
  /\ clock < MaxClock
  /\ clock' = clock + 1
  /\ UNCHANGED <<storeVars, genVars, fcVars, libVars>>

\* loadData() is called and suspends at `await parseCSV(csvPath)`: by the
\* startup code of server.js, or by _ensureData for a request that finds
\* dataLoaded false.
EnsureData ==
  /\ ~dataLoaded
  /\ loadsStarted < MaxLoads
  /\ loadsStarted' = loadsStarted + 1
  /\ loading' = loading + 1
  /\ UNCHANGED <<csvRows, waterData, locations, cache, dataLoaded, clock, requests,
                 uploads, response, genVars, fcVars, libVars>>

\* parseCSV resolves and loadData runs to its end: waterData and locations are
\* rebuilt from the rows; then the caller sets dataLoaded = true.
LoadData ==
  /\ loading > 0
  /\ LET rows == parseCSV(csvRows, clock)
     IN  /\ waterData' = LoadWaterData(rows, clock)
         /\ locations' = LoadLocations(rows, {})
  /\ dataLoaded' = TRUE
  /\ loading' = loading - 1
  /\ UNCHANGED <<csvRows, cache, loadsStarted, clock, requests, uploads, response,
                 genVars, fcVars, libVars>>

\* A request reaches its handler only after _ensureData (or app.listen).
Serving == dataLoaded /\ requests < MaxRequests

Reply(kind, arg, status, body, cached) ==
  [kind |-> kind, arg |-> arg, status |-> status, body |-> body, cached |-> cached]

cacheSet(c, key, value) == [k \in DOMAIN c \cup {key} |-> IF k = key THEN value ELSE c[k]]

\* The shape the cached handlers share: cache.get(key), and on a miss compute,
\* cache.set(key, response), res.json(response).
CachedHandler(kind, arg, key, body) ==
  /\ IF key \in DOMAIN cache
     THEN /\ response' = Reply(kind, arg, 200, cache[key], TRUE)
          /\ cache' = cache
     ELSE /\ response' = Reply(kind, arg, 200, body, FALSE)
          /\ cache' = cacheSet(cache, key, body)
  /\ requests' = requests + 1
  /\ UNCHANGED <<csvRows, waterData, locations, dataLoaded, loading, loadsStarted,
                 clock, uploads, genVars, fcVars, libVars>>

\* A handler that does not touch the cache.
PlainHandler(kind, arg, status, body) ==
  /\ response' = Reply(kind, arg, status, body, FALSE)
  /\ requests' = requests + 1
  /\ UNCHANGED <<csvRows, waterData, locations, cache, dataLoaded, loading, loadsStarted,
                 clock, uploads, genVars, fcVars, libVars>>

seriesBody(wd, location) ==
  LET data == getWaterByLocation(wd, location)
  IN  [i \in 1..Len(data) |-> enrichRecord(data[i])]

GetWaterDataByLocation(location) ==
  /\ Serving
  /\ IF <<"water", location>> \notin DOMAIN cache /\ getWaterByLocation(waterData, location) = <<>>
     THEN PlainHandler("water", location, 404, <<>>)
     ELSE CachedHandler("water", location, <<"water", location>>, seriesBody(waterData, location))

GetAllOverview ==
  /\ Serving
  /\ CachedHandler("overview", "", <<"all_overview", "">>, getOverviewData(waterData, locations))

GetRankings ==
  /\ Serving
  /\ CachedHandler("rankings", "", <<"rankings", "">>, getRankings(waterData))

GetHeatmapData ==
  /\ Serving
  /\ CachedHandler("heatmap", "", <<"heatmap_data", "">>, getHeatmapData(waterData, locations))

GetDistrictAlerts ==
  /\ Serving
  /\ CachedHandler("district-alerts", "", <<"district-alerts", "">>,
                   generateDistrictAlerts(getOverviewData(waterData, locations)))

GetDistrictGovUpdates ==
  /\ Serving
  /\ CachedHandler("district-gov-updates", "", <<"district-gov-updates", "">>,
                   generateDistrictGovUpdates(getOverviewData(waterData, locations)))

GetDistrictStats ==
  /\ Serving
  /\ PlainHandler("stats", "", 200, getEnhancedDistrictStats(waterData, locations))

GetYearlyChanges(location) ==
  /\ Serving
  /\ PlainHandler("yearly-changes", location, 200, getYearlyChanges(waterData, location))

\* NodeCache drops an entry once its TTL (stdTTL: 300) has run out.
CacheExpire(key) ==
  /\ key \in DOMAIN cache
  /\ cache' = [k \in DOMAIN cache \ {key} |-> cache[k]]
  /\ UNCHANGED <<csvRows, waterData, locations, dataLoaded, loading, loadsStarted,
                 clock, requests, uploads, response, genVars, fcVars, libVars>>

\* The upload handler without the test `!rows.length`.
UploadCsv_NoEmptyCheck(file) ==
  /\ Serving
  /\ uploads < MaxUploads
  /\ IF file = Null
     THEN /\ response' = Reply("upload", file, 400, <<>>, FALSE)
          /\ UNCHANGED <<waterData, locations, cache, uploads>>
     ELSE LET rows == parseCSV(file[1], clock)
              st   == addWaterData([wd |-> waterData, locs |-> locations], rows)
          IN  /\ waterData' = st.wd
              /\ locations' = st.locs
              /\ cache' = EmptyObject
              /\ uploads' = uploads + 1
              /\ response' = Reply("upload", file, 200,
                                   [totalRows |-> Len(rows),
                                    locations |-> Cardinality({rows[i].location : i \in 1..Len(rows)})],
                                   FALSE)
  /\ requests' = requests + 1
  /\ UNCHANGED <<csvRows, dataLoaded, loading, loadsStarted, clock, genVars, fcVars, libVars>>

\* POST /api/upload/csv.  After `await parseCSV(req.file.path)` the handler runs
\* addWaterData(rows) and flushCache() without suspending.
UploadCsv(file) ==
  /\ Serving
  /\ uploads < MaxUploads
  /\ IF file = Null \/ parseCSV(file[1], clock) = <<>>
     THEN /\ response' = Reply("upload", file, 400, <<>>, FALSE)
          /\ UNCHANGED <<waterData, locations, cache, uploads, libVars>>
     ELSE LET rows == parseCSV(file[1], clock)
              st   == addWaterData([wd |-> waterData, locs |-> locations], rows)
          IN  /\ waterData' = st.wd
              /\ locations' = st.locs
              /\ cache' = EmptyObject
              /\ uploads' = uploads + 1
              /\ response' = Reply("upload", file, 200,
                                   [totalRows |-> Len(rows),
                                    locations |-> Cardinality({rows[i].location : i \in 1..Len(rows)})],
                                   FALSE)
  /\ requests' = requests + 1
  /\ UNCHANGED <<csvRows, dataLoaded, loading, loadsStarted, clock, genVars, fcVars, libVars>>

CacheKeys ==
  {<<"water", n>> : n \in Names} \cup
  {<<k, "">> : k \in {"all_overview", "rankings", "heatmap_data", "district-alerts",
                      "district-gov-updates"}}

\* Cold starts and uploads: the steps that change the store.
Mutate ==
  \/ EnsureData
  \/ LoadData
  \/ \E file \in UploadFiles : UploadCsv(file)

\* The store and the aggregates read from it.
Next ==
  \/ Mutate
  \/ GetRankings
  \/ GetDistrictStats
  \/ \E location \in Names : GetYearlyChanges(location)

Spec == Init /\ [][Next]_vars

\* The response cache: every cached handler, expiry and the passing of time.
NextCache ==
  \/ Mutate
  \/ Tick
  \/ \E location \in Names : GetWaterDataByLocation(location)
  \/ GetAllOverview
  \/ GetRankings
  \/ GetHeatmapData
  \/ GetDistrictAlerts
  \/ GetDistrictGovUpdates
  \/ \E key \in CacheKeys : CacheExpire(key)

SpecCache == Init /\ [][NextCache]_vars

\* GET /api/water/:location/summary
GetLocationSummary(location) ==
  /\ Serving
  /\ LET summary == getLocationSummary(waterData, location)
     IN  IF summary = Null
         THEN PlainHandler("summary", location, 404, <<>>)
         ELSE PlainHandler("summary", location, 200, summary[1])

\* req.query.q: absent (`q || ''` is the empty string), "a", "B", "or", "z".
SearchQueries == {<<>>, <<97>>, <<66>>, <<111, 114>>, <<122>>}

\* GET /api/water/search-suggestions?q=...
GetSearchSuggestions(q) ==
  /\ Serving
  /\ PlainHandler("search-suggestions", q, 200, getSearchSuggestions(waterData, locations, q))

\* The store and the per-location views read from it.
NextViews ==
  \/ Mutate
  \/ \E location \in Names : GetLocationSummary(location)
  \/ \E q \in SearchQueries : GetSearchSuggestions(q)
  \/ \E location \in Names : GetYearlyChanges(location)

SpecViews == Init /\ [][NextViews]_vars

-----------------------------------------------------------------------------
(* Uploads of files with rows that parseCSV drops                            *)

\* A row without a location and a row whose Year column is not a number.
NoLocationRow == FileRow("", 2022, ProfSafe, Null, Null)
NoYearRow ==
  LET r == FileRow("A", 2022, ProfCritical, Null, Null)
  IN  [f \in DOMAIN r \ {"year"} |-> r[f]]

RawUploadRows ==
  { FileRow("A", 2022, ProfSafe, <<20010000>>, <<73800000>>),
    FileRow("B", 2022, ProfSafe, Null, Null),
    NoLocationRow,
    NoYearRow }

RawUploadFiles == {Null} \cup {<<rows>> : rows \in BoundedSeqs(RawUploadRows, MaxBatch)}

NextUpload ==
  \/ EnsureData
  \/ LoadData
  \/ \E file \in RawUploadFiles : UploadCsv(file)
  \/ \E location \in Names : GetWaterDataByLocation(location)

SpecUpload == Init /\ [][NextUpload]_vars

-----------------------------------------------------------------------------
(* The district-wide views over a store of several stations                  *)

MaxStations == 4   \* locations in the store of the district harness

StationNames == <<"A", "B", "C", "D", "E">>

\* Water scores 87 (Safe) and 12, 20, 28 (Critical).
StationProfiles ==
  {ProfSafe, ProfCritical,
   [ProfCritical EXCEPT !.rainfall = 9000],
   [ProfCritical EXCEPT !.rainfall = 12000]}

\* One uploaded row per station, for the first k station names in order.
StationRows ==
  UNION {{[i \in 1..k |-> FileRow(StationNames[i], 2022, profs[i], <<20010000>>, <<73800000>>)] :
            profs \in [1..k -> StationProfiles]} : k \in 1..MaxStations}

\* The store as loadData of an empty startup CSV and addWaterData of the rows
\* leave it.
InitDistrict ==
  /\ csvRows = <<>>
  /\ \E rows \in StationRows :
       LET st == addWaterData([wd |-> <<>>, locs |-> <<>>], parseCSV(rows, 0))
       IN  waterData = st.wd /\ locations = st.locs
  /\ cache = EmptyObject
  /\ dataLoaded = TRUE
  /\ loading = 0
  /\ loadsStarted = 1
  /\ clock = 0
  /\ requests = 0
  /\ uploads = 0
  /\ response = NoResponse
  /\ genBase = Null
  /\ genOut = <<>>
  /\ fcHistory = <<>>
  /\ fcYears = Null
  /\ fcResult = NoResponse
  /\ LibIdle

NextDistrict ==
  \/ GetDistrictAlerts
  \/ GetDistrictGovUpdates
  \/ GetAllOverview

SpecDistrict == InitDistrict /\ [][NextDistrict]_vars

-----------------------------------------------------------------------------
(* The generator on its own: one base row, called at different times         *)

GenYears == {2015, 2016, 2020, 2021, 2022}

GenBases ==
  {FileRow(n, y, p, Null, Null) : n \in Names, y \in GenYears,
                                  p \in {ProfSafe, ProfCritical, ProfZero}}

InitGen ==
  /\ csvRows = <<>>
  /\ waterData = <<>>
  /\ locations = <<>>
  /\ cache = EmptyObject
  /\ dataLoaded = FALSE
  /\ loading = 0
  /\ loadsStarted = 0
  /\ clock = 0
  /\ requests = 0
  /\ uploads = 0
  /\ response = NoResponse
  /\ genBase \in {parseCSV(<<b>>, 0) : b \in GenBases}
  /\ genOut = <<>>
  /\ fcHistory = <<>>
  /\ fcYears = Null
  /\ fcResult = NoResponse
  /\ LibIdle

CallGenerate ==
  /\ Len(genOut) < MaxGenCalls
  /\ genOut' = Append(genOut, generateMultiYearData(genBase[1], clock))
  /\ UNCHANGED <<storeVars, clock, genBase, fcVars, libVars>>

NextGen ==
  \/ Tick
  \/ CallGenerate

SpecGen == InitGen /\ [][NextGen]_vars

-----------------------------------------------------------------------------
(* The forecast on its own: one series, the library call and the endpoint    *)

MaxHistory == 2   \* observations in a forecast history

FcYearsOfData == 2018..2020

FcRows ==
  {FileRow("A", y, p, Null, Null) :
     y \in FcYearsOfData,
     p \in {ProfSafe, ProfCritical, ProfZero,
            [ProfSafe EXCEPT !.groundwaterLevel = 100],
            [ProfSafe EXCEPT !.groundwaterLevel = 120]}}

\* Series as getWaterByLocation returns them: ascending, one record per year.
Histories ==
  {h \in BoundedSeqs(FcRows, MaxHistory) : \A i \in 1..(Len(h) - 1) : h[i].year < h[i + 1].year}

\* req.query.years after parseInt: absent or not a number (Null), or a number.
YearsQueries == {Null, <<1>>, <<2>>, <<5>>, <<0>>, <<-2>>}

InitForecast ==
  /\ csvRows = <<>>
  /\ waterData = <<>>
  /\ locations = <<>>
  /\ cache = EmptyObject
  /\ dataLoaded = FALSE
  /\ loading = 0
  /\ loadsStarted = 0
  /\ clock = 0
  /\ requests = 0
  /\ uploads = 0
  /\ response = NoResponse
  /\ genBase = Null
  /\ genOut = <<>>
  /\ fcHistory \in Histories
  /\ fcYears \in YearsQueries
  /\ fcResult = NoResponse
  /\ LibIdle

\* predictFuture(historicalData, yearsAhead = 3) called as a library function;
\* it has no throw statement: it always returns its list.
CallPredictFuture ==
  /\ fcResult' = [kind |-> "predictFuture", error |-> FALSE,
                  predictions |-> predictFuture(fcHistory,
                                    IF fcYears = Null THEN 3 ELSE fcYears[1])]
  /\ UNCHANGED <<storeVars, clock, genVars, fcHistory, fcYears, libVars>>

\* GET /api/water/:location/predictions for a location whose series is fcHistory.
CallGetPredictions ==
  /\ LET r == getPredictions(fcHistory, fcYears)
     IN  fcResult' = [kind |-> "getPredictions", error |-> r.status # 200,
                      predictions |-> IF r.status = 200 THEN r.predictions ELSE <<>>]
  /\ UNCHANGED <<storeVars, clock, genVars, fcHistory, fcYears, libVars>>

NextForecast ==
  \/ CallPredictFuture
  \/ CallGetPredictions

SpecForecast == InitForecast /\ [][NextForecast]_vars

-----------------------------------------------------------------------------
(* The alert engine on its own: generateAlerts(latest, history)              *)

MaxAlertHistory == 5   \* records in the history handed to generateAlerts

AlertLevels == {100, 110, 120, 130}
AlertPHs    == {64, 65, 70, 80, 81}

\* A series of location A from 2018 on, one record per year, with the given
\* groundwater levels.
AlertSeries(levels) ==
  [i \in 1..Len(levels) |->
     [FileRow("A", 2017 + i, ProfSafe, Null, Null) EXCEPT !.groundwaterLevel = levels[i]]]

AlertHistories ==
  {Null} \cup {<<AlertSeries(levels)>> : levels \in BoundedSeqs(AlertLevels, MaxAlertHistory)}

AlertLatest == {[FileRow("A", 2021, ProfSafe, Null, Null) EXCEPT !.ph = ph] : ph \in AlertPHs}

InitAlerts ==
  /\ csvRows = <<>>
  /\ waterData = <<>>
  /\ locations = <<>>
  /\ cache = EmptyObject
  /\ dataLoaded = FALSE
  /\ loading = 0
  /\ loadsStarted = 0
  /\ clock = 0
  /\ requests = 0
  /\ uploads = 0
  /\ response = NoResponse
  /\ genBase = Null
  /\ genOut = <<>>
  /\ fcHistory = <<>>
  /\ fcYears = Null
  /\ fcResult = NoResponse
  /\ alData \in {<<d>> : d \in AlertLatest}
  /\ alHistory \in AlertHistories
  /\ alResult = NoResponse
  /\ engCall = NoResponse
  /\ engResult = NoResponse
  /\ hashName = <<>>
  /\ hashResult = NoResponse

CallGenerateAlerts ==
  /\ alResult.kind = "none"
  /\ alResult' = [kind |-> "generateAlerts", alerts |-> generateAlerts(alData[1], alHistory)]
  /\ UNCHANGED <<storeVars, clock, genVars, fcVars, alData, alHistory, engVars, hashVars>>

NextAlerts == CallGenerateAlerts

SpecAlerts == InitAlerts /\ [][NextAlerts]_vars

-----------------------------------------------------------------------------
(* The score engine on its own: normalize, calculateWaterScore, getStatus,   *)
(* getStatusColor and enrichRecord as library calls                          *)

\* Metric values in tenths, inside and outside the normalization domains
\* (water level 4..20 m, rainfall 500..1500 mm, depletion 0..10, ph 7 +- 1.5).
EngLevels     == {-50, 0, 40, 120, 200, 5000}
EngRainfalls  == {-100, 0, 5000, 9990, 10000, 15000, 20000}
EngDepletions == {-10, 0, 33, 100, 500}
EngPHs        == {0, 55, 70, 85, 140}

EngObservations ==
  {[FileRow("A", 2020, ProfSafe, Null, Null)
      EXCEPT !.groundwaterLevel = wl, !.rainfall = rf, !.depletionRate = dp, !.ph = ph] :
     wl \in EngLevels, rf \in EngRainfalls, dp \in EngDepletions, ph \in EngPHs}

EngValues == {Rat(-7, 1), Rat(0, 1), Rat(3, 2), Rat(4, 1), Rat(35, 3), Rat(20, 1), Rat(2500, 1)}
EngRanges ==
  {r \in [min : {Rat(-5, 1), Rat(0, 1), Rat(4, 1), Rat(500, 1)},
          max : {Rat(0, 1), Rat(3, 2), Rat(20, 1), Rat(1500, 1)}] : RLt(r.min, r.max)}

EngCalls ==
  {[kind |-> "calculateWaterScore", data |-> d] : d \in EngObservations}
    \cup {[kind |-> "enrichRecord", data |-> d] : d \in EngObservations}
    \cup {[kind |-> "normalize", value |-> v, min |-> r.min, max |-> r.max] :
            v \in EngValues, r \in EngRanges}
    \cup {[kind |-> "getStatus", score |-> k] : k \in 0..100}

InitEngine ==
  /\ csvRows = <<>>
  /\ waterData = <<>>
  /\ locations = <<>>
  /\ cache = EmptyObject
  /\ dataLoaded = FALSE
  /\ loading = 0
  /\ loadsStarted = 0
  /\ clock = 0
  /\ requests = 0
  /\ uploads = 0
  /\ response = NoResponse
  /\ genBase = Null
  /\ genOut = <<>>
  /\ fcHistory = <<>>
  /\ fcYears = Null
  /\ fcResult = NoResponse
  /\ alData = Null
  /\ alHistory = Null
  /\ alResult = NoResponse
  /\ engCall \in EngCalls
  /\ engResult = NoResponse
  /\ hashName = <<>>
  /\ hashResult = NoResponse

EngReturn(result) ==
  /\ engResult.kind = "none"
  /\ engResult' = result
  /\ UNCHANGED <<storeVars, clock, genVars, fcVars, alVars, engCall, hashVars>>

CallCalculateWaterScore ==
  /\ engCall.kind = "calculateWaterScore"
  /\ EngReturn([kind |-> "calculateWaterScore", score |-> calculateWaterScore(engCall.data)])

CallEnrichRecord ==
  /\ engCall.kind = "enrichRecord"
  /\ EngReturn([kind |-> "enrichRecord", record |-> enrichRecord(engCall.data)])

\* normalize(value, min, max) and normalize(value, min, max, true)
CallNormalize ==
  /\ engCall.kind = "normalize"
  /\ EngReturn([kind |-> "normalize",
                plain    |-> normalize(engCall.value, engCall.min, engCall.max, FALSE),
                inverted |-> normalize(engCall.value, engCall.min, engCall.max, TRUE)])

CallGetStatus ==
  /\ engCall.kind = "getStatus"
  /\ EngReturn([kind |-> "getStatus", status |-> getStatus(engCall.score),
                statusColor |-> getStatusColor(engCall.score)])

NextEngine ==
  \/ CallCalculateWaterScore
  \/ CallEnrichRecord
  \/ CallNormalize
  \/ CallGetStatus

SpecEngine == InitEngine /\ [][NextEngine]_vars

-----------------------------------------------------------------------------
(* The three copies of the location-name hash, on one name                   *)

MaxNameLen == 7   \* UTF-16 code units in a location name

\* 'A', 'z' and a CJK character.
HashAlphabet == {65, 122, 20013}

HashNames == BoundedSeqs(HashAlphabet, MaxNameLen)

InitHash ==
  /\ csvRows = <<>>
  /\ waterData = <<>>
  /\ locations = <<>>
  /\ cache = EmptyObject
  /\ dataLoaded = FALSE
  /\ loading = 0
  /\ loadsStarted = 0
  /\ clock = 0
  /\ requests = 0
  /\ uploads = 0
  /\ response = NoResponse
  /\ genBase = Null
  /\ genOut = <<>>
  /\ fcHistory = <<>>
  /\ fcYears = Null
  /\ fcResult = NoResponse
  /\ alData = Null
  /\ alHistory = Null
  /\ alResult = NoResponse
  /\ engCall = NoResponse
  /\ engResult = NoResponse
  /\ hashName \in HashNames
  /\ hashResult = NoResponse

CallHashes ==
  /\ hashResult.kind = "none"
  /\ hashResult' = [kind       |-> "hashes",
                    store      |-> coordinatesHash(hashName),
                    generator  |-> generatorSeed(hashName),
                    seedScript |-> seedScriptHash(hashName)]
  /\ UNCHANGED <<storeVars, clock, genVars, fcVars, alVars, engVars, hashName>>

\* generateCoordinates(name) of the data store and of the seed script.
CallGenerateCoordinates ==
  /\ hashResult.kind = "none"
  /\ hashResult' = [kind       |-> "coordinates",
                    store      |-> coordinatesOf(coordinatesHash(hashName)),
                    seedScript |-> coordinatesOf(seedScriptHash(hashName))]
  /\ UNCHANGED <<storeVars, clock, genVars, fcVars, alVars, engVars, hashName>>

NextHash ==
  \/ CallHashes
  \/ CallGenerateCoordinates

SpecHash == InitHash /\ [][NextHash]_vars

-----------------------------------------------------------------------------
(* Claims                                                                    *)

KeyOf(r) == <<r.location, r.year>>

StoredLocations == {waterData[i].location : i \in 1..Len(waterData)}

\* What a cache miss on `key` computes from the store as it is now.
FreshBody(key) ==
  CASE key[1] = "water"                -> seriesBody(waterData, key[2])
    [] key[1] = "all_overview"         -> getOverviewData(waterData, locations)
    [] key[1] = "rankings"             -> getRankings(waterData)
    [] key[1] = "heatmap_data"         -> getHeatmapData(waterData, locations)
    [] key[1] = "district-alerts"      ->
         generateDistrictAlerts(getOverviewData(waterData, locations))
    [] key[1] = "district-gov-updates" ->
         generateDistrictGovUpdates(getOverviewData(waterData, locations))

\* A response body without the lastUpdated stamps of its records.
Unstamped(key, body) ==
  IF key[1] = "water"
  THEN [i \in 1..Len(body) |-> [f \in DOMAIN body[i] \ {"lastUpdated"} |-> body[i][f]]]
  ELSE body

\* C1: whatever a cached GET handler would serve from the cache equals, apart
\* from the lastUpdated stamps, the response computed from the store's current
\* contents: no entry written before a mutation is served after it.
C1_CacheServesCurrent ==
  \A key \in DOMAIN cache : Unstamped(key, cache[key]) = Unstamped(key, FreshBody(key))

\* C2: the store never holds two observations with the same (location, year).
C2_UniqueLocationYear ==
  \A i, j \in 1..Len(waterData) : i # j => KeyOf(waterData[i]) # KeyOf(waterData[j])

\* The observations of `wd` whose key is not in `keys`, in order.
Others(wd, keys) == SelectIdx(wd, [i \in 1..Len(wd) |-> KeyOf(wd[i]) \notin keys])

\* `new` is `old` after an upsert of `rows`.
UpsertOf(old, new, rows) ==
  LET keys == {KeyOf(rows[i]) : i \in 1..Len(rows)}
      lastOf(k) == rows[CHOOSE i \in 1..Len(rows) :
                     /\ KeyOf(rows[i]) = k
                     /\ \A j \in (i + 1)..Len(rows) : KeyOf(rows[j]) # k]
  IN  /\ \A k \in keys :
           /\ Cardinality({p \in 1..Len(new) : KeyOf(new[p]) = k}) = 1
           /\ \A p \in 1..Len(new) : KeyOf(new[p]) = k => new[p] = lastOf(k)
      /\ Others(new, keys) = Others(old, keys)

\* C3: an upload that ingests rows leaves, for every (location, year) of the
\* batch, exactly one stored observation with that key, equal to the last row
\* of the batch with that key, and leaves every stored observation of another
\* key present and unchanged.
C3_AddWaterDataIsUpsert ==
  [][\A file \in UploadFiles \ {Null} :
       (UploadCsv(file) /\ file[1] # <<>>)
         => UpsertOf(waterData, waterData', parseCSV(file[1], clock))]_vars

\* C3 witness: a batch of two different rows of one key has been ingested into
\* a store that holds observations of other keys.
C3_Witness ==
  /\ response.kind = "upload"
  /\ response.status = 200
  /\ LET rows == response.arg[1]
     IN  /\ Len(rows) = 2
         /\ KeyOf(rows[1]) = KeyOf(rows[2])
         /\ rows[1] # rows[2]
         /\ Cardinality({p \in 1..Len(waterData) : KeyOf(waterData[p]) = KeyOf(rows[2])}) = 1
         /\ Len(waterData) > 6

\* C4: two calls of generateMultiYearData with the same base row return the
\* same list, field for field.
C4_GeneratorDeterministic ==
  Len(genOut) >= 2 => genOut[1] = genOut[2]

\* C5: every output of generateMultiYearData has exactly one record for each
\* of 2016..2021 in ascending order and contains the base row itself.
C5_OnePerYearWithBase ==
  \A c \in 1..Len(genOut) :
    /\ [i \in 1..Len(genOut[c]) |-> genOut[c][i].year] = years
    /\ \E i \in 1..Len(genOut[c]) : genOut[c][i] = genBase[1]

\* C6: a forecast over fewer than 2 observations fails explicitly and returns
\* no prediction, from the endpoint and from predictFuture alike.
C6_InsufficientHistoryFails ==
  (fcResult.kind # "none" /\ Len(fcHistory) < 2)
    => (fcResult.error /\ fcResult.predictions = <<>>)

\* C7: getRankings lists every location that has an observation exactly once,
\* with ranks 1..N in list order.
C7_RankingsPermutation ==
  LET r == getRankings(waterData)
  IN  /\ {r[i].location : i \in 1..Len(r)} = StoredLocations
      /\ Len(r) = Cardinality(StoredLocations)
      /\ \A i \in 1..Len(r) : r[i].rank = i

C9_DistrictCountsAddUp ==
  LET stats == getDistrictStats(waterData)
  IN  waterData # <<>> =>
        /\ "totalLocations" \in DOMAIN stats
        /\ stats.safeCount + stats.warningCount + stats.criticalCount = stats.totalLocations
        /\ stats.totalLocations = Cardinality(StoredLocations)

\* changePct (tenths of a percent) is (curr - prev) / |prev| * 100 to one
\* decimal, and 0 for prev = 0.
ChangeOk(m, prev, curr) ==
  /\ m.prev = prev
  /\ m.curr = curr
  /\ m.changePct.finite
  /\ IF prev = 0 THEN m.changePct.v = 0
     ELSE 2 * Abs(m.changePct.v * Abs(prev) - 1000 * (curr - prev)) <= Abs(prev)

\* C10: getYearlyChanges has one entry per consecutive pair of the ascending
\* series, each changePct is the rounded percentage or 0 for prev = 0, and it
\* is never NaN or infinite.
C10_YearlyChanges ==
  \A name \in Names :
    LET records == getWaterByLocation(waterData, name)
        changes == getYearlyChanges(waterData, name)
    IN  /\ Len(changes) = Max(0, Len(records) - 1)
        /\ \A k \in 1..Len(changes) :
             LET prv == records[k]
                 cur == records[k + 1]
                 c   == changes[k]
             IN  /\ c.from = prv.year /\ c.to = cur.year
                 /\ ChangeOk(c.waterLevel, prv.groundwaterLevel, cur.groundwaterLevel)
                 /\ ChangeOk(c.rainfall, prv.rainfall, cur.rainfall)
                 /\ ChangeOk(c.depletion, prv.depletionRate, cur.depletionRate)
                 /\ ChangeOk(c.consumption, prv.consumption, cur.consumption)
                 /\ ChangeOk(c.ph, prv.ph, cur.ph)

\* C10 witness: GET yearly-changes has answered for a series with a pair whose
\* previous rainfall is 0 and a pair whose rainfall changed from a non-zero
\* value.
C10_Witness ==
  /\ response.kind = "yearly-changes"
  /\ response.body = getYearlyChanges(waterData, response.arg)
  /\ \E k \in 1..Len(response.body) :
       response.body[k].rainfall.prev = 0 /\ response.body[k].rainfall.curr # 0
  /\ \E k \in 1..Len(response.body) :
       response.body[k].rainfall.prev # 0 /\ response.body[k].rainfall.changePct.v # 0

\* The titles of the alerts generateAlerts returned.
AlertTitles == {alResult.alerts[i].title : i \in 1..Len(alResult.alerts)}

\* Three consecutive years of the history, each with a groundwaterLevel
\* above the previous year's.
ThreeRisingYears(h) ==
  \E i \in 1..(Len(h) - 2) :
    /\ h[i].groundwaterLevel < h[i + 1].groundwaterLevel
    /\ h[i + 1].groundwaterLevel < h[i + 2].groundwaterLevel

\* C11: for a history with 3 consecutive years of strictly increasing
\* groundwaterLevel, generateAlerts emits the 'Sustained Water Level Decline'
\* alert and its value is 3.
C11_SustainedDeclineAlert ==
  (alResult.kind = "generateAlerts" /\ alHistory # Null /\ ThreeRisingYears(alHistory[1]))
    => \E i \in 1..Len(alResult.alerts) :
         /\ alResult.alerts[i].title = "Sustained Water Level Decline"
         /\ alResult.alerts[i].value = 3

\* C19: generateAlerts emits the pH alert exactly when the latest ph is
\* below 6.5 or above 8.0; a ph of exactly 6.5 or 8.0 emits none.
C19_PhAlertOutsideRange ==
  alResult.kind = "generateAlerts"
    => ("pH Imbalance" \in AlertTitles <=> (alData[1].ph < 65 \/ alData[1].ph > 80))

\* The three forecast metrics: field, interval field, and the scale of the
\* reported numbers (10: hundredths, 1: tenths).
FcMetrics ==
  {[f |-> "groundwaterLevel", ci |-> "groundwaterLevelCI", scale |-> 10],
   [f |-> "rainfall",         ci |-> "rainfallCI",         scale |-> 1],
   [f |-> "depletionRate",    ci |-> "depletionRateCI",    scale |-> 10]}

FcPoints(m) == [j \in 1..Len(fcHistory) |-> [x |-> fcHistory[j].year, y |-> fcHistory[j][m.f]]]

\* A prediction list has been returned for the history fcHistory.
FcReturned == fcResult.kind # "none" /\ ~fcResult.error

\* The value at `year` of the straight line through the two points of pts.
LineThrough(pts, year) ==
  RAdd(RInt(pts[1].y),
       RMul(Rat(pts[2].y - pts[1].y, pts[2].x - pts[1].x), RInt(year - pts[1].x)))

\* C12: for a history of exactly two observations the regression line of each
\* metric passes through both points, every predicted value is the rounded,
\* floored value of that line, lower = upper = the point estimate, and step 1
\* is labelled "high"; (2018, 10), (2019, 12) gives slope 2 and 14 for 2020.
C12_TwoPointForecast ==
  (FcReturned /\ Len(fcHistory) = 2) =>
    \A m \in FcMetrics :
      LET pts == FcPoints(m)
          reg == linearRegression(pts)
      IN  /\ \A j \in 1..2 :
               RAdd(RMul(reg.slope, RInt(pts[j].x)), reg.intercept) = RInt(pts[j].y)
          /\ \A i \in 1..Len(fcResult.predictions) :
               LET pr == fcResult.predictions[i]
               IN  /\ pr[m.f] = Max(0, RoundHalfAway(RMul(LineThrough(pts, pr.year),
                                                          RInt(m.scale))))
                   /\ pr[m.ci].lower = pr[m.f]
                   /\ pr[m.ci].upper = pr[m.f]
                   /\ (i = 1 => pr.confidenceLevel = "high")
          /\ (m.f = "groundwaterLevel" /\ pts = <<[x |-> 2018, y |-> 100], [x |-> 2019, y |-> 120]>>)
               => /\ reg.slope = RInt(20)
                  /\ Len(fcResult.predictions) >= 1
                       => fcResult.predictions[1].groundwaterLevel = 1400

\* C13: in every prediction and for each metric the interval is floored at 0
\* and brackets the point estimate: 0 <= lower <= point estimate <= upper.
C13_IntervalBracketsEstimate ==
  (FcReturned /\ Len(fcHistory) >= 1) =>
    \A m \in FcMetrics : \A i \in 1..Len(fcResult.predictions) :
      LET pr == fcResult.predictions[i]
      IN  /\ 0 <= pr[m.ci].lower
          /\ pr[m.ci].lower <= pr[m.f]
          /\ pr[m.f] <= pr[m.ci].upper

\* C14: calculateWaterScore returns an integer in [0, 100] for every numeric
\* observation, whatever the magnitude of its metrics.
C14_ScoreInRange ==
  engResult.kind = "calculateWaterScore" => engResult.score \in 0..100

\* C14 witness: a score has been returned for an observation whose water
\* level, rainfall, depletion and ph are all outside the normalization domains.
C14_Witness ==
  /\ engResult.kind = "calculateWaterScore"
  /\ engCall.data.groundwaterLevel = 5000
  /\ engCall.data.rainfall = -100
  /\ engCall.data.depletionRate = 500
  /\ engCall.data.ph = 140

\* C15: with the other metrics fixed, more rainfall never gives a lower score
\* and a higher depletion rate never gives a higher score.
C15_ScoreMonotonic ==
  engResult.kind = "calculateWaterScore" =>
    /\ \A rf \in EngRainfalls :
         rf >= engCall.data.rainfall =>
           calculateWaterScore([engCall.data EXCEPT !.rainfall = rf]) >= engResult.score
    /\ \A dp \in EngDepletions :
         dp >= engCall.data.depletionRate =>
           calculateWaterScore([engCall.data EXCEPT !.depletionRate = dp]) <= engResult.score

\* C15 witness: a score has been returned that more rainfall strictly raises
\* and a higher depletion rate strictly lowers.
C15_Witness ==
  /\ engResult.kind = "calculateWaterScore"
  /\ \E rf \in EngRainfalls :
       /\ rf > engCall.data.rainfall
       /\ calculateWaterScore([engCall.data EXCEPT !.rainfall = rf]) > engResult.score
  /\ \E dp \in EngDepletions :
       /\ dp > engCall.data.depletionRate
       /\ calculateWaterScore([engCall.data EXCEPT !.depletionRate = dp]) < engResult.score

\* C16: for min < max normalize lies in [0, 100], is 0 at min and 100 at max,
\* and with invert = true is 100 minus the plain value (100 at min, 0 at max).
C16_NormalizeEndpoints ==
  engResult.kind = "normalize" =>
    /\ RLeq(RInt(0), engResult.plain) /\ RLeq(engResult.plain, RInt(100))
    /\ RLeq(RInt(0), engResult.inverted) /\ RLeq(engResult.inverted, RInt(100))
    /\ engCall.value = engCall.min => (engResult.plain = RInt(0) /\ engResult.inverted = RInt(100))
    /\ engCall.value = engCall.max => (engResult.plain = RInt(100) /\ engResult.inverted = RInt(0))
    /\ engResult.inverted = RSub(RInt(100), engResult.plain)

\* C16 witness: normalize has returned for a value above max of a range whose
\* min is not 0.
C16_Witness ==
  /\ engResult.kind = "normalize"
  /\ engCall.min = RInt(4)
  /\ engCall.max = RInt(20)
  /\ engCall.value = RInt(2500)
  /\ engResult.plain = RInt(100)

\* The status and the colour of a score.
StatusOf(score) ==
  IF score >= 70 THEN [status |-> "Safe", statusColor |-> "#22c55e"]
  ELSE IF score >= 40 THEN [status |-> "Warning", statusColor |-> "#eab308"]
  ELSE [status |-> "Critical", statusColor |-> "#ef4444"]

\* C17: for every score in 0..100 getStatus is Safe from 70, Warning from 40
\* to 69 and Critical below 40, getStatusColor is green, yellow, red on the
\* same partition, and an enriched record's status and statusColor agree.
C17_StatusPartition ==
  /\ engResult.kind = "getStatus" =>
       /\ engResult.status = StatusOf(engCall.score).status
       /\ engResult.statusColor = StatusOf(engCall.score).statusColor
  /\ engResult.kind = "enrichRecord" =>
       /\ engResult.record.status = StatusOf(engResult.record.waterScore).status
       /\ engResult.record.statusColor = StatusOf(engResult.record.waterScore).statusColor

\* C17 witness: getStatus has returned Safe for the score 70.
C17_Witness ==
  /\ engResult.kind = "getStatus"
  /\ engCall.score = 70
  /\ engResult.status = "Safe"
  /\ engResult.statusColor = "#22c55e"

\* C18: for every location name the generator's seed, the data store's
\* coordinate hash and the seed script's coordinate hash are the same integer,
\* and it is within the signed 32-bit range.
C18_HashesAgree ==
  hashResult.kind = "hashes" =>
    /\ hashResult.generator = hashResult.store
    /\ hashResult.seedScript = hashResult.store
    /\ hashResult.store >= -2147483647 - 1
    /\ hashResult.store <= 2147483647

\* C18 witness: the hashes have been computed for a name of full length
\* whose hash wrapped around to a negative number.
C18_Witness ==
  /\ hashResult.kind = "hashes"
  /\ Len(hashName) = MaxNameLen
  /\ hashResult.store < 0

\* The Location records of a name.
LocationsNamed(locs, name) == {i \in 1..Len(locs) : locs[i].name = name}

\* The first of the rows that names the location.
FirstRowOf(rows, name) ==
  rows[CHOOSE i \in 1..Len(rows) :
         /\ rows[i].location = name
         /\ \A j \in 1..(i - 1) : rows[j].location # name]

\* Every stored name has exactly one Location, and every Location has numbers
\* for latitude and longitude.
LocationsSound ==
  /\ \A n \in StoredLocations : Cardinality(LocationsNamed(locations, n)) = 1
  /\ \A i \in 1..Len(locations) :
       /\ locations[i].latitude \in Int
       /\ locations[i].longitude \in Int

\* C20: after loadData and any addWaterData calls every location name of a
\* stored observation has exactly one Location, whose latitude and longitude
\* are numbers; a Location is made from the first row that names the
\* location, and an upload leaves the Locations that exist as they are.
C20_OneLocationPerName ==
  [][ /\ LocationsSound'
      /\ loading' = loading - 1 =>
           \A i \in 1..Len(locations') :
             locations'[i] = NewLocation(FirstRowOf(csvRows, locations'[i].name))
      /\ uploads' = uploads + 1 =>
           /\ Len(locations') >= Len(locations)
           /\ \A i \in 1..Len(locations) : locations'[i] = locations[i]
           /\ \A i \in (Len(locations) + 1)..Len(locations') :
                locations'[i] =
                  NewLocation(FirstRowOf(response'.arg[1], locations'[i].name)) ]_vars

\* C20 witness: an upload has been ingested; A's Location still has the
\* coordinates generated at load time although a stored uploaded row of A
\* carries other coordinates, and B's Location was created by the upload from
\* a row without coordinates.
C20_Witness ==
  /\ uploads > 0
  /\ \A i \in 1..Len(csvRows) : csvRows[i].location = "A" /\ ~HasCoords(csvRows[i])
  /\ \E i \in 1..Len(locations) :
       /\ locations[i].name = "A"
       /\ locations[i].latitude = generateCoordinates("A").latitude
       /\ \E k \in 1..Len(waterData) :
            /\ waterData[k].location = "A"
            /\ waterData[k].year = 2022
            /\ HasCoords(waterData[k])
            /\ waterData[k].latitude[1] # locations[i].latitude
  /\ \E i \in 1..Len(locations) :
       /\ locations[i].name = "B"
       /\ locations[i].latitude = generateCoordinates("B").latitude
  /\ LocationsSound

\* C21: a successful predictions response for a series of at least 2
\* observations holds exactly H predictions, H >= 1, for the years
\* lastYear + 1 .. lastYear + H in ascending order, where H is the requested
\* value and 3 when none is given; no request value gives a successful
\* response with an empty list.
C21_PredictionsCount ==
  (fcResult.kind = "getPredictions" /\ ~fcResult.error /\ Len(fcHistory) >= 2) =>
    LET p == fcResult.predictions
        lastYear == fcHistory[Len(fcHistory)].year
    IN  /\ Len(p) >= 1
        /\ fcYears = Null => Len(p) = 3
        /\ (fcYears # Null /\ fcYears[1] >= 1) => Len(p) = fcYears[1]
        /\ \A i \in 1..Len(p) : p[i].year = lastYear + i

\* The three run detections of generateAlerts: alert title, metric, and
\* whether the run is one of increases or of decreases.
TrendRuns ==
  {[title |-> "Sustained Water Level Decline", field |-> "groundwaterLevel", rising |-> TRUE],
   [title |-> "Accelerating Depletion Trend",  field |-> "depletionRate",    rising |-> TRUE],
   [title |-> "Declining Rainfall Pattern",    field |-> "rainfall",         rising |-> FALSE]}

\* The step from record i to record i + 1 of h goes the way of the run.
RunStep(h, k, i) ==
  IF k.rising THEN h[i + 1][k.field] > h[i][k.field] ELSE h[i + 1][k.field] < h[i][k.field]

\* The lengths of the maximal runs of h, counted in steps.
RunLengths(h, k) ==
  {b - a + 1 : <<a, b>> \in
     {ab \in (1..(Len(h) - 1)) \X (1..(Len(h) - 1)) :
        /\ ab[1] <= ab[2]
        /\ \A i \in ab[1]..ab[2] : RunStep(h, k, i)
        /\ ab[1] = 1 \/ ~RunStep(h, k, ab[1] - 1)
        /\ ab[2] = Len(h) - 1 \/ ~RunStep(h, k, ab[2] + 1)}}

\* C22: for an ascending series of at least 3 points, every run of 3 or more
\* consecutive strict increases in groundwaterLevel or depletionRate, or
\* strict decreases in rainfall, gets its Trend alert with the run's length
\* as value, wherever in the series the run is.
C22_RunAlertAnywhere ==
  (alResult.kind = "generateAlerts" /\ alHistory # Null /\ Len(alHistory[1]) >= 3) =>
    \A k \in TrendRuns : \A len \in RunLengths(alHistory[1], k) :
      len >= 3 => \E i \in 1..Len(alResult.alerts) :
                    /\ alResult.alerts[i].title = k.title
                    /\ alResult.alerts[i].value = len

\* The number of latest-per-location records of the store with the status.
StatusCount(status) ==
  LET latest == latestValues(waterData)
  IN  Cardinality({i \in 1..Len(latest) : getStatus(calculateWaterScore(latest[i])) = status})

\* C23: safeCount, warningCount and criticalCount of the district statistics
\* are the numbers of latest-per-location records whose status is Safe,
\* Warning and Critical, the counts the overview and the district government
\* updates report for the same store.
C23_DistrictCountsByStatus ==
  latestValues(waterData) # <<>> =>
    LET stats    == getDistrictStats(waterData)
        overview == getOverviewData(waterData, locations)
        gov      == generateDistrictGovUpdates(overview)[1]
        inOverview(status) ==
          Cardinality({i \in 1..Len(overview) : overview[i].status = status})
    IN  /\ stats.safeCount = StatusCount("Safe")
        /\ stats.warningCount = StatusCount("Warning")
        /\ stats.criticalCount = StatusCount("Critical")
        /\ stats.safeCount = inOverview("Safe") /\ stats.safeCount = gov.safeCount
        /\ stats.warningCount = inOverview("Warning") /\ stats.warningCount = gov.warningCount
        /\ stats.criticalCount = inOverview("Critical") /\ stats.criticalCount = gov.criticalCount

\* C24: for every location with observations, the latest record that
\* getOverviewData, getRankings, getHeatmapData and getDistrictStats use is a
\* record of maximal year of the location and is the record
\* getLatestByLocation returns.
C24_LatestAgrees ==
  LET latest == latestValues(waterData)
  IN  \A n \in StoredLocations :
        \E i \in 1..Len(latest) :
          /\ latest[i].location = n
          /\ \A k \in 1..Len(waterData) :
               waterData[k].location = n => waterData[k].year <= latest[i].year
          /\ getLatestByLocation(waterData, n) = <<latest[i]>>

\* The three percentages of a summary entry with the getYearlyChanges entry
\* of the same pair.
YoyPairs(n) ==
  LET summary == getLocationSummary(waterData, n)[1].yoyChanges
      yearly  == getYearlyChanges(waterData, n)
  IN  {<<summary[k].waterLevelChange, yearly[k].waterLevel>> : k \in 1..Len(yearly)}
        \cup {<<summary[k].rainfallChange, yearly[k].rainfall>> : k \in 1..Len(yearly)}
        \cup {<<summary[k].depletionChange, yearly[k].depletion>> : k \in 1..Len(yearly)}

\* C25: for every consecutive pair of a location's series the waterLevelChange,
\* rainfallChange and depletionChange of getLocationSummary are
\* (curr - prev) / |prev| * 100 to one decimal, 0 when prev is 0, and equal
\* the changePct getYearlyChanges reports for the same pair and metric.
C25_SummaryYoyAgrees ==
  \A n \in StoredLocations :
    /\ Len(getLocationSummary(waterData, n)[1].yoyChanges) = Len(getYearlyChanges(waterData, n))
    /\ \A pair \in YoyPairs(n) :
         /\ pair[1] = pair[2].changePct
         /\ ChangeOk(pair[2], pair[2].prev, pair[2].curr)
         /\ pair[2].prev = 0 => pair[1] = Finite(0)

\* C26: for a non-empty latest set with c > 0 Critical locations the district
\* 'Critical Zones' alert has value c, names min(3, c) locations and, for
\* c > 3, a remainder of c - 3; no unnamed Critical location has a lower water
\* score than a named one.
C26_CriticalZonesWorstFirst ==
  LET overview == getOverviewData(waterData, locations)
      alerts   == generateDistrictAlerts(overview)
      critical == {i \in 1..Len(overview) : overview[i].status = "Critical"}
      c        == Cardinality(critical)
  IN  c > 0 =>
        \E a \in 1..Len(alerts) :
          /\ alerts[a].title = "Critical Zones Detected"
          /\ alerts[a].value = c
          /\ Len(alerts[a].priority) = Min(3, c)
          /\ alerts[a].more = (IF c > 3 THEN c - 3 ELSE 0)
          /\ \A i, j \in critical :
               (/\ \E k \in 1..Len(alerts[a].priority) : alerts[a].priority[k] = overview[i].location
                /\ \A k \in 1..Len(alerts[a].priority) : alerts[a].priority[k] # overview[j].location)
                 => overview[j].waterScore >= overview[i].waterScore

\* The trend label of a series by the rule of the claim: the scores of its
\* last two records compared with the margin 3.
TrendLabel(records) ==
  IF Len(records) < 2 THEN "stable"
  ELSE LET diff == calculateWaterScore(records[Len(records)])
                     - calculateWaterScore(records[Len(records) - 1])
       IN  IF diff > 3 THEN "improving" ELSE IF diff < -3 THEN "declining" ELSE "stable"

\* C27: for every location the trend label is improving for a score
\* difference above 3, declining below -3 and stable otherwise, a single
\* observation included, and getLocationSummary, getRankings and
\* getSearchSuggestions report the same label for the location.
C27_TrendLabelsAgree ==
  LET rankings == getRankings(waterData)
  IN  \A n \in StoredLocations :
        LET label       == TrendLabel(getWaterByLocation(waterData, n))
            suggestions == getSearchSuggestions(waterData, locations, CharCodes(n))
        IN  /\ getLocationSummary(waterData, n)[1].trend = label
            /\ \E i \in 1..Len(rankings) :
                 rankings[i].location = n /\ rankings[i].trend = label
            /\ \E i \in 1..Len(suggestions) :
                 suggestions[i].name = n /\ suggestions[i].trend = label

\* Within 0.4 degrees of the district centre (19.9975, 73.7898).
NearCentre(coords) ==
  /\ coords.latitude >= 19997500 - 400000 /\ coords.latitude <= 19997500 + 400000
  /\ coords.longitude >= 73789800 - 400000 /\ coords.longitude <= 73789800 + 400000

\* C28: for every location name the fallback coordinates of
\* generateCoordinates lie within 0.4 degrees of the district centre in
\* latitude and in longitude, names with a negative hash included.
C28_CoordinatesNearCentre ==
  hashResult.kind = "coordinates" =>
    NearCentre(hashResult.store) /\ NearCentre(hashResult.seedScript)

\* C29: under any interleaving of cold-start requests the store is loaded from
\* the startup CSV at most once and is never reset after it has served or
\* ingested data: no loadData completes once the data is loaded, and a stored
\* record stays in the store across every step that is not a later upload.
C29_LoadedOnce ==
  [][ dataLoaded =>
        /\ loading' >= loading
        /\ uploads' = uploads =>
             \A i \in 1..Len(waterData) :
               LET series == getWaterByLocation(waterData', waterData[i].location)
               IN  \E k \in 1..Len(series) : series[k] = waterData[i] ]_vars

\* The upload request carries no file, or a file none of whose rows has both
\* a location and a numeric year.
NoValidRow(file) ==
  file = Null \/ \A i \in 1..Len(file[1]) :
                   file[1][i].location = "" \/ "year" \notin DOMAIN file[1][i]

\* C30: a CSV upload without a file or without a valid row is answered with
\* 400 and leaves the observations, the locations and the response cache as
\* they are.
C30_RejectedUploadChangesNothing ==
  [][ (requests' = requests + 1 /\ response'.kind = "upload" /\ NoValidRow(response'.arg)) =>
        /\ response'.status = 400
        /\ waterData' = waterData
        /\ locations' = locations
        /\ cache' = cache ]_vars

\* C30 witness: an upload whose file has rows, none of them valid, has been
\* answered with 400 while the store holds observations and the cache an
\* entry.
C30_Witness ==
  /\ response.kind = "upload"
  /\ response.arg # Null
  /\ response.arg[1] # <<>>
  /\ NoValidRow(response.arg)
  /\ response.status = 400
  /\ waterData # <<>>
  /\ DOMAIN cache # {}

=============================================================================
